---- MODULE Spec2Model ----
(***************************************************************************)
(* Job processing subsystem of nexusleads: the scheduler loop, the job     *)
(* claimer, the per-type job state machines with their progress steps,     *)
(* cooperative cancellation, orphan recovery and the credit ledger.        *)
(*                                                                         *)
(* The store is PostgreSQL (src/jobs/models.py uses the postgresql         *)
(* dialect types) at READ COMMITTED: every statement sees the latest       *)
(* committed rows, a row lock is held until the owning transaction         *)
(* commits or rolls back.  One action of the model is one piece of code    *)
(* that runs between two points at which another actor can observe or      *)
(* change the rows it depends on.                                          *)
(***************************************************************************)
EXTENDS Integers, Sequences, FiniteSets, TLC

\* ------------------------------------------------------------------ bounds
NProcs        == 2      \* scheduler processes sharing the store
NJobs         == 2      \* rows the sourcing_jobs table can hold
SingleRows    == 1      \* rows in use where whole job runs are explored
MaxCrashes    == 1      \* process crashes explored
MaxContribs   == 1      \* contributors a repository fetch may return
MaxPurchases  == 1      \* purchase requests explored
MaxStars      == 10     \* star count a metadata fetch returns
MaxBalance    == 2      \* largest initial credit balance, in cents

\* ------------------------------------------------------- program constants
MAX_CONCURRENT_JOBS == 3        \* src/jobs/config.py:32
ENRICHMENT_CREDIT_COST == 1     \* 0.01 credits, in cents
MIN_PURCHASE == 1000            \* 10.00 credits, in cents
CHECK_EVERY == 10               \* inner-loop cancellation check period

Procs  == 1..NProcs
Jobs   == 1..NJobs
NoProc == 0
NoJob  == 0

JobTypes == {"repository_sourcing", "social_enrichment"}
AllJobTypes == JobTypes \cup {"stargazer_analysis", "clay_push"}
\* a job_type the dispatch of process_job has no branch for (the column is a
\* free String(50); schemas.py:251 even admits this value)
UNKNOWN_JOB_TYPE == "similar_repos"
Terminal == {"completed", "failed", "cancelled", "out_of_credits"}
Statuses == {"absent", "pending", "running"} \cup Terminal

CANCELLED_MSG == "Cancelled by user"
NO_CREDITS_MSG == "Insufficient credits. Add credits to continue."
NO_LEADS_MSG == "No valid leads found"
ERR == "error text"
None == "None"
Expired == [status |-> "expired", started_at |-> FALSE]

VARIABLES
    jobs,                \* sourcing_jobs rows: [Jobs -> record], status "absent" = no row yet
    steps,               \* job_progress rows per job: [Jobs -> Seq(record)]
    rowlock,             \* FOR UPDATE lock on a job row: [Jobs -> Procs \cup {NoProc}]
    ppc,                 \* position of each scheduler process in run()
    orphaned,            \* result of recover_orphaned_jobs' query, per process
    pending_jobs,        \* result of claim_pending_jobs, per process (a sequence of job ids)
    running_jobs,        \* JobProcessor.running_jobs, per process
    cur,                 \* the job whose task occupies the process's event loop (NoJob = loop free)
    wpc,                 \* position of the task process_job(job) of each process
    wjob,                \* the task's session copy of the job row (Expired after a commit)
    wcount,              \* contributors fetched / processed by the task: [n, done]
    billing,             \* the org_billing row of the organization
    block,               \* holder of the FOR UPDATE lock on the billing row (<<p, j>> or <<>>)
    credit_transactions, \* ledger rows
    usage_events,        \* ledger rows
    env,                 \* deployment facts that never change: schema drift, org membership
    repository,          \* the repositories row the sourcing jobs refer to, with the source of
                         \* the contributor_stats row of one of its contributors
    services,            \* JobProcessor.github_service / enrichment_service, per process:
                         \* the job whose process_job created the instances (NoJob = none yet)
    wbal,                \* new_balance computed by a check_and_deduct call
    result,              \* return value of check_and_deduct per task
    purchase,            \* purchase_credits requests: position and the row they read
    hist                 \* observation only: counters and snapshots used to state properties

vars == <<jobs, steps, rowlock, ppc, orphaned, pending_jobs, running_jobs, cur,
          wpc, wjob, wcount, billing, block, credit_transactions, usage_events,
          env, repository, services, wbal, result, purchase, hist>>

schedVars   == <<ppc, orphaned, pending_jobs, running_jobs>>
billingVars == <<billing, block, credit_transactions, usage_events, wbal, result, purchase>>

\* ----------------------------------------------------------------- helpers
Min(a, b) == IF a < b THEN a ELSE b
Max(a, b) == IF a > b THEN a ELSE b
Range(s) == {s[i] : i \in DOMAIN s}

RECURSIVE SetToSeq(_)
\* ORDER BY created_at: job ids are handed out in creation order
SetToSeq(S) ==
    IF S = {} THEN <<>>
    ELSE LET m == CHOOSE x \in S : \A y \in S : x <= y
         IN  <<m>> \o SetToSeq(S \ {m})

Take(s, n) == SubSeq(s, 1, Min(n, Len(s)))

NoResult == [set |-> FALSE, allowed |-> FALSE, balance |-> -1]
Result(a, b) == [set |-> TRUE, allowed |-> a, balance |-> b]
NoStats == "none"         \* no contributor_stats row for the contributor
NoBalance == -1          \* Python None in the returned tuple

NewJob(type) ==
    [status |-> "pending", job_type |-> type, started_at |-> FALSE,
     completed_at |-> FALSE, current_step |-> 0, total_steps |-> 0,
     progress_percentage |-> 0, error_message |-> ""]

AbsentJob == [NewJob("none") EXCEPT !.status = "absent"]

TotalSteps(type) ==
    CASE type = "repository_sourcing" -> 4
      [] type = "clay_push" -> 2
      [] OTHER -> 3

\* progress_percentage is DECIMAL(5,2): kept in hundredths of a percent,
\* rounded half up as the column does.
Percentage(current_step, total_steps) ==
    IF total_steps > 0
    THEN (2 * current_step * 10000 + total_steps) \div (2 * total_steps)
    ELSE 0

\* a progress update that leaves the percentage alone
update_job_progress_StepOnly(job, current_step, total_steps) ==
    [job EXCEPT !.current_step = current_step, !.total_steps = total_steps]

update_job_progress(job, current_step, total_steps) ==
    [job EXCEPT !.current_step = current_step,
                !.total_steps = total_steps,
                !.progress_percentage = Percentage(current_step, total_steps)]

\* message and error_message are nullable columns that the constructor
\* call leaves unset
create_progress_step(rows, owner, step_number) ==
    Append(rows, [owner |-> owner, step_number |-> step_number,
                  status |-> "pending", message |-> None, error_message |-> None])

\* an update that copies the message whatever its value
update_progress_step_Mirrors(rows, owner, step_number, status, message) ==
    [i \in DOMAIN rows |->
        IF rows[i].owner = owner /\ rows[i].step_number = step_number
        THEN [rows[i] EXCEPT
                !.status = status,
                !.message = message,
                !.error_message = IF status = "failed" THEN message ELSE @]
        ELSE rows[i]]

\* `if message:` is false for None and for the empty string
update_progress_step(rows, owner, step_number, status, message) ==
    [i \in DOMAIN rows |->
        IF rows[i].owner = owner /\ rows[i].step_number = step_number
        THEN [rows[i] EXCEPT
                !.status = status,
                !.message = IF message \notin {None, ""} THEN message ELSE @,
                !.error_message = IF message \notin {None, ""} /\ status = "failed"
                                  THEN message ELSE @]
        ELSE rows[i]]

mark_job_cancelled(rows) ==
    [i \in DOMAIN rows |->
        IF rows[i].status \in {"pending", "running"}
        THEN [rows[i] EXCEPT !.status = "failed",
                             !.message = CANCELLED_MSG,
                             !.error_message = CANCELLED_MSG]
        ELSE rows[i]]

\* the failure handler without the completion timestamp
FailJob_NoTimestamp(job, text) ==
    [job EXCEPT !.status = "failed", !.error_message = text]

\* the job-level failure handler shared by the processing routines
FailJob(job, text) ==
    [job EXCEPT !.status = "failed", !.error_message = text, !.completed_at = TRUE]

CompleteJob(job) ==
    [job EXCEPT !.status = "completed", !.completed_at = TRUE,
                !.progress_percentage = 10000]

\* ensure_job_active without the status comparison
ensure_job_active_Blind(j) == TRUE

ensure_job_active(j) == jobs[j].status # "cancelled"

Active(p, j) == wpc[p][j] \notin {"idle", "done"}

\* -------------------------------------------------------------------- Init
BillingRow(exists, balance, byok, enterprise) ==
    [exists |-> exists, credit_balance |-> balance, total_credits_purchased |-> 0,
     total_credits_used |-> 0, total_enrichments |-> 0,
     is_byok |-> byok, is_enterprise |-> enterprise]

NoBillingRow == BillingRow(FALSE, 0, FALSE, FALSE)

\* every organization state the deployment can start a scheduler in
BillingRows ==
    {NoBillingRow} \cup
    {BillingRow(TRUE, b, y, e) : b \in 0..MaxBalance, y \in BOOLEAN, e \in BOOLEAN}

\* txn_ok / usage_ok: the deployed schema accepts the INSERT into
\* credit_transactions / usage_events (no schema drift); has_org: the job
\* creator is member of an organization; rows: how many rows of the job
\* table the run may use.
Envs(rows) ==
    [txn_ok : BOOLEAN, usage_ok : BOOLEAN, has_org : BOOLEAN, export : {FALSE}, rows : {rows},
     max_concurrent_jobs : {MAX_CONCURRENT_JOBS}, leads : {TRUE}, stars : {MaxStars}]
\* max_concurrent_jobs: the MAX_CONCURRENT_JOBS setting of the worker's
\* environment (config.py:32, default 3); leads: the lead ids of a push job
\* name contributors that exist; stars: the star count the metadata fetch
\* of the repository returns.
HealthyEnv(rows) ==
    [txn_ok |-> TRUE, usage_ok |-> TRUE, has_org |-> TRUE, export |-> FALSE, rows |-> rows,
     max_concurrent_jobs |-> MAX_CONCURRENT_JOBS, leads |-> TRUE, stars |-> MaxStars]
\* a worker started with MAX_CONCURRENT_JOBS=1
TightEnv(rows) == [HealthyEnv(rows) EXCEPT !.max_concurrent_jobs = 1]
\* a store in which the lead ids of push jobs name no contributor
NoLeadsEnv(rows) == [HealthyEnv(rows) EXCEPT !.leads = FALSE]
\* a deployment whose credit_transactions table lacks the job_id / user_id
\* columns the worker inserts (billing_service.py, lines 110-112)
DriftEnv(rows) == [HealthyEnv(rows) EXCEPT !.txn_ok = FALSE]
\* a deployment whose project asks for an export on completion: the
\* auto_export_clay_enabled column is set, a webhook is configured and the
\* project has contributors that pass the filters and were never pushed
ExportEnv(rows) == [HealthyEnv(rows) EXCEPT !.export = TRUE]

NoPurchase == [pc |-> "idle", exists |-> FALSE, credit_balance |-> 0,
               total_credits_purchased |-> 0]

Hist0(b) ==
    [crashes |-> 0,
     cancel_pc |-> [j \in Jobs |-> "none"],
     late_call |-> [j \in Jobs |-> FALSE],
     balance0 |-> b.credit_balance,
     purchased |-> 0,
     before |-> [p \in Procs |-> [j \in Jobs |-> "none"]],
     claimers |-> [j \in Jobs |-> {}],
     committed |-> [j \in Jobs |-> 0],
     raised |-> [j \in Jobs |-> FALSE],
     called |-> [j \in Jobs |-> FALSE],
     recovery_error |-> [p \in Procs |-> FALSE],
     cancelled_unstarted |-> [j \in Jobs |-> FALSE]]

InitWith(B, E) ==
    /\ jobs = [j \in Jobs |-> AbsentJob]
    /\ steps = [j \in Jobs |-> <<>>]
    /\ rowlock = [j \in Jobs |-> NoProc]
    /\ ppc = [p \in Procs |-> "stopped"]
    /\ orphaned = [p \in Procs |-> {}]
    /\ pending_jobs = [p \in Procs |-> <<>>]
    /\ running_jobs = [p \in Procs |-> {}]
    /\ cur = [p \in Procs |-> NoJob]
    /\ wpc = [p \in Procs |-> [j \in Jobs |-> "idle"]]
    /\ wjob = [p \in Procs |-> [j \in Jobs |-> Expired]]
    /\ wcount = [p \in Procs |-> [j \in Jobs |-> [n |-> 0, done |-> 0]]]
    /\ billing \in B
    /\ block = <<>>
    /\ credit_transactions = <<>>
    /\ usage_events = <<>>
    /\ env \in E
    /\ repository = [stars |-> 0, stats_source |-> NoStats]
    /\ services = [p \in Procs |-> NoJob]
    /\ wbal = [p \in Procs |-> [j \in Jobs |-> 0]]
    /\ result = [p \in Procs |-> [j \in Jobs |-> NoResult]]
    /\ purchase = [u \in 1..MaxPurchases |-> NoPurchase]
    /\ hist = Hist0(billing)

\* schema drift shows only where a deduction is journalled, so the drifted
\* deployment starts with a balance that pays for one
Init ==
    \/ InitWith({NoBillingRow, BillingRow(TRUE, 0, FALSE, FALSE),
                 BillingRow(TRUE, 1, FALSE, FALSE)}, {HealthyEnv(SingleRows)})
    \/ InitWith({BillingRow(TRUE, 1, FALSE, FALSE)}, {DriftEnv(SingleRows)})

\* ------------------------------------------------------- API: job creation
\* POST handlers of the backend insert a pending row (routers/repositories.py,
\* routers/contributors.py); ids follow creation order.
CreateJob(j, type) ==
    /\ j <= env.rows
    /\ jobs[j].status = "absent"
    /\ \A i \in Jobs : i < j => jobs[i].status # "absent"
    /\ jobs' = [jobs EXCEPT ![j] = NewJob(type)]
    /\ UNCHANGED <<steps, rowlock, schedVars, cur, wpc, wjob, wcount,
                   billingVars, env, repository, services, hist>>

\* ------------------------------------------------- API: sourcing triggers
\* Every job of the model refers to the one repository: the sourcing jobs
\* the triggers insert and the enrichment jobs step 4 queues (repository_id
\* at job_processor.py:463).  The existence check of the triggers looks at
\* jobs of any type in status pending or running.
existing_job == \E i \in Jobs : jobs[i].status \in {"pending", "running"}

\* POST /repositories/{id}/source-now: 400 when a job is in progress,
\* otherwise a pending repository_sourcing row is inserted and committed.
trigger_sourcing(j) ==
    /\ j <= env.rows
    /\ jobs[j].status = "absent"
    /\ \A i \in Jobs : i < j => jobs[i].status # "absent"
    /\ ~existing_job
    /\ jobs' = [jobs EXCEPT ![j] = NewJob("repository_sourcing")]
    /\ UNCHANGED <<steps, rowlock, schedVars, cur, wpc, wjob, wcount,
                   billingVars, env, repository, services, hist>>

\* POST /projects/{id}/source: the same check and insert for each active
\* repository of the project (here the one repository), committed at the end.
trigger_project_sourcing(j) ==
    /\ j <= env.rows
    /\ jobs[j].status = "absent"
    /\ \A i \in Jobs : i < j => jobs[i].status # "absent"
    /\ IF existing_job
       THEN UNCHANGED jobs
       ELSE jobs' = [jobs EXCEPT ![j] = NewJob("repository_sourcing")]
    /\ UNCHANGED <<steps, rowlock, schedVars, cur, wpc, wjob, wcount,
                   billingVars, env, repository, services, hist>>

\* ------------------------------------------------------------- API: cancel
\* cancel_job reads the row and writes it back in one request; its UPDATE
\* waits for a claimer's row lock.
\* the job's processing routine has not started: no task is inside it, the
\* job has no progress step and no adapter call was made for it
Unstarted(j) ==
    /\ \A p \in Procs : wpc[p][j] \in {"idle", "start"}
    /\ steps[j] = <<>>
    /\ ~hist.called[j]

cancel_job(j) ==
    /\ jobs[j].status \in {"pending", "running"}
    /\ rowlock[j] = NoProc
    /\ jobs' = [jobs EXCEPT ![j].status = "cancelled",
                            ![j].completed_at = TRUE,
                            ![j].error_message = CANCELLED_MSG]
    /\ hist' = [hist EXCEPT !.cancel_pc[j] =
                   IF \E p \in Procs : Active(p, j)
                   THEN wpc[CHOOSE p \in Procs : Active(p, j)][j]
                   ELSE "noworker",
                            !.late_call[j] = FALSE,
                            !.cancelled_unstarted[j] = Unstarted(j)]
    /\ UNCHANGED <<steps, rowlock, schedVars, cur, wpc, wjob, wcount,
                   billingVars, env, repository, services>>

\* ---------------------------------------------------------- scheduler loop
\* run() is entered: the process is about to recover orphans.
Start(p) ==
    /\ ppc[p] = "stopped"
    /\ ppc' = [ppc EXCEPT ![p] = "recover"]
    /\ UNCHANGED <<jobs, steps, rowlock, orphaned, pending_jobs, running_jobs,
                   cur, wpc, wjob, wcount, billingVars, env, repository, services, hist>>

\* recover_orphaned_jobs, the query: every row with status 'running'.
\* a recovery that also restarts the jobs parked for lack of credits
Orphans_WithParked == {j \in Jobs : jobs[j].status \in {"running", "out_of_credits"}}

\* recover_orphaned_jobs, line 1114: the rows the query returns
Orphans == {j \in Jobs : jobs[j].status = "running"}

RecoverSelect(p) ==
    /\ ppc[p] = "recover"
    /\ LET found == Orphans
       IN  /\ orphaned' = [orphaned EXCEPT ![p] = found]
           /\ ppc' = [ppc EXCEPT ![p] = IF found = {} THEN "poll" ELSE "recover_commit"]
           /\ hist' = [hist EXCEPT !.before[p] =
                          IF found = {} THEN @ ELSE [j \in Jobs |-> jobs[j].status]]
    /\ UNCHANGED <<jobs, steps, rowlock, pending_jobs, running_jobs,
                   cur, wpc, wjob, wcount, billingVars, env, repository, services>>

\* a recovery that forgets the progress counters
ResetJob_KeepProgress(job) ==
    [job EXCEPT !.status = "pending", !.started_at = FALSE]

ResetJob(job) ==
    [job EXCEPT !.status = "pending", !.started_at = FALSE,
                !.progress_percentage = 0, !.current_step = 0]

\* recover_orphaned_jobs, the writes and the commit.
RecoverCommit(p) ==
    /\ ppc[p] = "recover_commit"
    /\ jobs' = [j \in Jobs |-> IF j \in orphaned[p] THEN ResetJob(jobs[j]) ELSE jobs[j]]
    /\ steps' = [j \in Jobs |-> IF j \in orphaned[p] THEN <<>> ELSE steps[j]]
    /\ orphaned' = [orphaned EXCEPT ![p] = {}]
    /\ ppc' = [ppc EXCEPT ![p] = "poll"]
    /\ hist' = [hist EXCEPT !.cancel_pc = [j \in Jobs |->
                   IF j \in orphaned[p] THEN "none" ELSE @[j]],
                            !.late_call = [j \in Jobs |->
                   IF j \in orphaned[p] THEN FALSE ELSE @[j]],
                            !.claimers = [j \in Jobs |->
                   IF j \in orphaned[p] THEN {} ELSE @[j]],
                            !.called = [j \in Jobs |->
                   IF j \in orphaned[p] THEN FALSE ELSE @[j]],
                            !.before[p] = [j \in Jobs |-> "none"]]
    /\ UNCHANGED <<rowlock, pending_jobs, running_jobs, cur, wpc, wjob, wcount,
                   billingVars, env, repository, services>>

\* a failing recovery whose reset reaches the store before the error
RecoverRaises_AfterCommit(p) ==
    /\ ppc[p] = "recover_commit"
    /\ jobs' = [j \in Jobs |-> IF j \in orphaned[p] THEN ResetJob(jobs[j]) ELSE jobs[j]]
    /\ orphaned' = [orphaned EXCEPT ![p] = {}]
    /\ ppc' = [ppc EXCEPT ![p] = "poll"]
    /\ hist' = [hist EXCEPT !.before[p] = [j \in Jobs |-> "none"],
                            !.recovery_error[p] = TRUE]
    /\ UNCHANGED <<steps, rowlock, pending_jobs, running_jobs, cur, wpc, wjob, wcount,
                   billingVars, env, repository, services>>

\* run(), lines 1176-1181: the session, the query or the commit of
\* recover_orphaned_jobs raises (the store is not reachable); the pending
\* writes are lost with the session, the handler logs "Failed to recover
\* orphaned jobs" and run() enters its loop.
RecoverRaises(p) ==
    /\ ppc[p] \in {"recover", "recover_commit"}
    /\ orphaned' = [orphaned EXCEPT ![p] = {}]
    /\ ppc' = [ppc EXCEPT ![p] = "poll"]
    /\ hist' = [hist EXCEPT !.before[p] = [j \in Jobs |-> "none"],
                            !.recovery_error[p] = TRUE]
    /\ UNCHANGED <<jobs, steps, rowlock, pending_jobs, running_jobs, cur, wpc, wjob,
                   wcount, billingVars, env, repository, services>>

\* the claim query without its row locking
Claimable_NoLock(p) ==
    LET available == Max(0, env.max_concurrent_jobs - Cardinality(running_jobs[p]))
        pending   == {j \in Jobs : jobs[j].status = "pending"}
    IN  Take(SetToSeq(pending), available)

\* the claim query without its LIMIT
Claimable_Unlimited(p) ==
    SetToSeq({j \in Jobs : jobs[j].status = "pending" /\ rowlock[j] = NoProc})

\* the claim query ordered newest first
Claimable_NewestFirst(p) ==
    LET available == Max(0, env.max_concurrent_jobs - Cardinality(running_jobs[p]))
        unlocked  == SetToSeq({j \in Jobs : jobs[j].status = "pending" /\ rowlock[j] = NoProc})
    IN  Take([i \in DOMAIN unlocked |-> unlocked[Len(unlocked) + 1 - i]], available)

\* rows the locking read returns: pending, not locked by another transaction,
\* oldest first, at most `available`
Claimable(p) ==
    LET available == Max(0, env.max_concurrent_jobs - Cardinality(running_jobs[p]))
        unlocked  == {j \in Jobs : jobs[j].status = "pending" /\ rowlock[j] = NoProc}
    IN  Take(SetToSeq(unlocked), available)

\* claim_pending_jobs, the SELECT ... FOR UPDATE SKIP LOCKED.
ClaimSelect(p) ==
    /\ ppc[p] = "poll"
    /\ Claimable(p) # <<>>
    /\ pending_jobs' = [pending_jobs EXCEPT ![p] = Claimable(p)]
    /\ rowlock' = [j \in Jobs |-> IF j \in Range(Claimable(p)) THEN p ELSE rowlock[j]]
    /\ ppc' = [ppc EXCEPT ![p] = "claim_commit"]
    /\ UNCHANGED <<jobs, steps, orphaned, running_jobs, cur, wpc, wjob, wcount,
                   billingVars, env, repository, services, hist>>

\* claim_pending_jobs, the status writes and the commit; run() then creates
\* one task per claimed job and waits for all of them (asyncio.gather).
ClaimCommit(p) ==
    /\ ppc[p] = "claim_commit"
    /\ LET batch == Range(pending_jobs[p])
       IN  /\ jobs' = [j \in Jobs |->
                         IF j \in batch
                         THEN [jobs[j] EXCEPT !.status = "running", !.started_at = TRUE]
                         ELSE jobs[j]]
           /\ rowlock' = [j \in Jobs |-> IF rowlock[j] = p THEN NoProc ELSE rowlock[j]]
           /\ wpc' = [wpc EXCEPT ![p] = [j \in Jobs |-> IF j \in batch THEN "start" ELSE @[j]]]
           /\ hist' = [hist EXCEPT !.claimers = [j \in Jobs |->
                          IF j \in batch THEN @[j] \cup {p} ELSE @[j]]]
    /\ ppc' = [ppc EXCEPT ![p] = "gather"]
    /\ UNCHANGED <<steps, orphaned, pending_jobs, running_jobs, cur, wjob, wcount,
                   billingVars, env, repository, services>>

\* asyncio.gather returns once every task of the batch has finished.
GatherDone(p) ==
    /\ ppc[p] = "gather"
    /\ \A j \in Range(pending_jobs[p]) : wpc[p][j] = "done"
    /\ wpc' = [wpc EXCEPT ![p] = [j \in Jobs |-> "idle"]]
    /\ pending_jobs' = [pending_jobs EXCEPT ![p] = <<>>]
    /\ ppc' = [ppc EXCEPT ![p] = "poll"]
    /\ UNCHANGED <<jobs, steps, rowlock, orphaned, running_jobs, cur, wjob, wcount,
                   billingVars, env, repository, services, hist>>

\* the process is killed: its tasks vanish, its open transactions roll back.
Crash(p) ==
    /\ ppc[p] # "stopped"
    /\ hist.crashes < MaxCrashes
    /\ ppc' = [ppc EXCEPT ![p] = "stopped"]
    /\ orphaned' = [orphaned EXCEPT ![p] = {}]
    /\ pending_jobs' = [pending_jobs EXCEPT ![p] = <<>>]
    /\ running_jobs' = [running_jobs EXCEPT ![p] = {}]
    /\ cur' = [cur EXCEPT ![p] = NoJob]
    /\ rowlock' = [j \in Jobs |-> IF rowlock[j] = p THEN NoProc ELSE rowlock[j]]
    /\ block' = IF block # <<>> /\ block[1] = p THEN <<>> ELSE block
    /\ wpc' = [wpc EXCEPT ![p] = [j \in Jobs |-> "idle"]]
    /\ wjob' = [wjob EXCEPT ![p] = [j \in Jobs |-> Expired]]
    /\ wcount' = [wcount EXCEPT ![p] = [j \in Jobs |-> [n |-> 0, done |-> 0]]]
    /\ wbal' = [wbal EXCEPT ![p] = [j \in Jobs |-> 0]]
    /\ result' = [result EXCEPT ![p] = [j \in Jobs |-> NoResult]]
    /\ hist' = [hist EXCEPT !.crashes = @ + 1,
                            !.cancel_pc = [j \in Jobs |->
                               IF Active(p, j) /\ @[j] # "none" THEN "crashed" ELSE @[j]],
                            !.before[p] = [j \in Jobs |-> "none"],
                            !.recovery_error[p] = FALSE]
    /\ services' = [services EXCEPT ![p] = NoJob]
    /\ UNCHANGED <<jobs, steps, billing, credit_transactions, usage_events, env, repository, purchase>>

\* ------------------------------------------------------------ process_job
\* A task runs on its process's event loop: it starts or resumes only when
\* the loop is free and keeps it until it awaits an adapter call or ends.
Owner(p, j) == <<p, j>>

\* the end of a task without the discard of process_job's finally block
TaskEnds_KeepsRunning(p, j) ==
    /\ wpc' = [wpc EXCEPT ![p][j] = "done"]
    /\ cur' = [cur EXCEPT ![p] = NoJob]
    /\ UNCHANGED running_jobs

TaskEnds(p, j) ==
    /\ wpc' = [wpc EXCEPT ![p][j] = "done"]
    /\ running_jobs' = [running_jobs EXCEPT ![p] = @ \ {j}]
    /\ cur' = [cur EXCEPT ![p] = NoJob]

TaskGoes(p, j, pc) ==
    /\ wpc' = [wpc EXCEPT ![p][j] = pc]
    /\ cur' = [cur EXCEPT ![p] = j]
    /\ UNCHANGED running_jobs

TaskAwaits(p, j, pc) ==
    /\ wpc' = [wpc EXCEPT ![p][j] = pc]
    /\ cur' = [cur EXCEPT ![p] = NoJob]
    /\ UNCHANGED running_jobs

CheckPc == <<"check1", "check2", "check3", "check4", "check5">>
CallPc  == <<"call1", "call2", "call3", "call4">>

FirstPc(type) ==
    CASE type = "repository_sourcing" -> "rs_init"
      [] type = "social_enrichment" -> "se_bill"
      [] type = "stargazer_analysis" -> "sg_init"
      [] type = "clay_push" -> "cp_import"
      [] OTHER -> "done"

\* process_job up to the dispatch, and the first ensure_job_active of the
\* processing routine: the task registers itself, loads the row in its own
\* session and stops at once if the row is already cancelled; for a
\* job_type without a branch it logs a warning and ends. Before that
\* _init_services replaces the adapter instances of the JobProcessor, which
\* all tasks of the process share, by instances made for this job.
ProcessJobStart(p, j) ==
    /\ wpc[p][j] = "start"
    /\ cur[p] = NoJob
    /\ \A i \in Jobs : i < j => wpc[p][i] # "start"
    /\ IF jobs[j].status = "cancelled" \/ jobs[j].job_type \notin AllJobTypes
       THEN /\ wpc' = [wpc EXCEPT ![p][j] = "done"]
            /\ UNCHANGED <<running_jobs, cur, wjob>>
       ELSE /\ wpc' = [wpc EXCEPT ![p][j] = FirstPc(jobs[j].job_type)]
            /\ running_jobs' = [running_jobs EXCEPT ![p] = @ \cup {j}]
            /\ cur' = [cur EXCEPT ![p] = j]
            /\ wjob' = [wjob EXCEPT ![p][j] =
                          [status |-> jobs[j].status, started_at |-> jobs[j].started_at]]
    /\ services' = [services EXCEPT ![p] = j]
    /\ UNCHANGED <<jobs, steps, rowlock, ppc, orphaned, pending_jobs, wcount,
                   billingVars, env, repository, hist>>

\* what the session sees when the routine reads job.status / job.started_at:
\* the copy it loaded, or the stored row once a commit has expired the copy
Seen(p, j) ==
    IF wjob[p][j] = Expired
    THEN [status |-> jobs[j].status, started_at |-> jobs[j].started_at]
    ELSE wjob[p][j]

\* "Initialize job": status, started_at and total_steps are written only
\* where the session sees them unset, then committed.
InitializeJob(job, seen, total) ==
    [job EXCEPT !.status = IF seen.status # "running" THEN "running" ELSE @,
                !.started_at = IF ~seen.started_at THEN TRUE ELSE @,
                !.total_steps = IF @ = 0 THEN total ELSE @]

\* ------------------------------------------------------ generic step parts
\* ensure_job_active failed: the JobCancelledError handler of the routine.
Cancelled(p, j) ==
    /\ steps' = [steps EXCEPT ![j] = mark_job_cancelled(@)]
    /\ TaskEnds(p, j)
    /\ UNCHANGED <<jobs, hist>>

\* create_progress_step followed by update_progress_step(.., 'running')
OpenStep(rows, p, j, k) ==
    update_progress_step(create_progress_step(rows, Owner(p, j), k), Owner(p, j), k, "running", None)

\* an adapter call is started on behalf of job j
NoteCall(j) ==
    hist' = [hist EXCEPT !.late_call[j] = @ \/ hist.cancel_pc[j] # "none",
                         !.called[j] = TRUE]

\* a step boundary of a step whose body awaits an adapter call:
\* ensure_job_active, open the step, start the call.
CheckThenCall(p, j, k) ==
    /\ wpc[p][j] = CheckPc[k]
    /\ cur[p] = j
    /\ IF ~ensure_job_active(j)
       THEN Cancelled(p, j)
       ELSE /\ steps' = [steps EXCEPT ![j] = OpenStep(@, p, j, k)]
            /\ NoteCall(j)
            /\ TaskAwaits(p, j, CallPc[k])
            /\ UNCHANGED jobs
    /\ UNCHANGED <<rowlock, ppc, orphaned, pending_jobs, wjob, wcount, billingVars, env, repository, services>>

\* the adapter call of a step whose failure fails the job returns:
\* on success the step is completed and update_job_progress commits, on an
\* exception the step is failed with the exception text and the routine's
\* handler fails the job.
ReturnOrFail(p, j, k, total, ok) ==
    /\ IF ok
       THEN /\ steps' = [steps EXCEPT ![j] =
                           update_progress_step(@, Owner(p, j), k, "completed", "done")]
            /\ jobs' = [jobs EXCEPT ![j] = update_job_progress(@, k, total)]
            /\ TaskGoes(p, j, CheckPc[k + 1])
       ELSE /\ steps' = [steps EXCEPT ![j] =
                           update_progress_step(@, Owner(p, j), k, "failed", ERR)]
            /\ jobs' = [jobs EXCEPT ![j] = FailJob(@, ERR)]
            /\ TaskEnds(p, j)
    /\ wjob' = [wjob EXCEPT ![p][j] = Expired]

\* ---------------------------------------------------------- billing ledger
Metered(row) == row.exists /\ ~row.is_byok /\ ~row.is_enterprise

\* the UPDATE org_billing statement of check_and_deduct
Deduct(row, new_balance) ==
    [row EXCEPT !.credit_balance = new_balance,
                !.total_credits_used = @ + ENRICHMENT_CREDIT_COST,
                !.total_enrichments = @ + 1]

\* a ledger row that records the balance before the deduction
TxnRow_OldBalance(j, new_balance) ==
    [type |-> "deduction", amount |-> 0 - ENRICHMENT_CREDIT_COST,
     balance_after |-> new_balance + ENRICHMENT_CREDIT_COST,
     job_id |-> j, contributor_id |-> j]

TxnRow(j, new_balance) ==
    [type |-> "deduction", amount |-> 0 - ENRICHMENT_CREDIT_COST,
     balance_after |-> new_balance, job_id |-> j, contributor_id |-> j]

UsageRow(j) ==
    [event_type |-> "enrichment", cost |-> ENRICHMENT_CREDIT_COST,
     job_id |-> j, contributor_id |-> j]

\* an exemption test that forgets enterprise organizations
Exempt_ByokOnly(row) == row.is_byok

\* line 62: BYOK and enterprise organizations are never charged
Exempt(row) == row.is_byok \/ row.is_enterprise

\* a metering call without the balance comparison
Sufficient_Always(balance) == TRUE

\* a balance comparison against zero instead of against the cost
Sufficient_NonNegative(balance) == ~(balance < 0)

Sufficient(balance) == ~(balance < ENRICHMENT_CREDIT_COST)

LockFree(p, j) == block = <<>> \/ block = Owner(p, j)

\* The tail of check_and_deduct, from the usage_events INSERT to the commit,
\* given the billing row and ledger the open transaction has produced.  A
\* failed INSERT is swallowed, but PostgreSQL has then aborted the
\* transaction and the COMMIT that follows may discard all of its writes;
\* whether the driver surfaces that is not decided by the source, so both
\* outcomes are kept.
CommitDeduction(p, j, row, txns, new_balance, kept) ==
    /\ IF env.usage_ok
       THEN /\ billing' = row
            /\ credit_transactions' = txns
            /\ usage_events' = Append(usage_events, UsageRow(j))
            /\ hist' = [hist EXCEPT !.committed[j] = @ + 1]
       ELSE IF kept
            THEN /\ billing' = row
                 /\ credit_transactions' = txns
                 /\ hist' = [hist EXCEPT !.committed[j] = @ + 1]
                 /\ UNCHANGED usage_events
            ELSE UNCHANGED <<billing, credit_transactions, usage_events, hist>>
    /\ block' = <<>>
    /\ result' = [result EXCEPT ![p][j] = Result(TRUE, new_balance)]

\* a decline that is handled like any other failure of the routine
ParkJob_Failed(job) == FailJob(job, NO_CREDITS_MSG)

\* process_social_enrichment, lines 529-534: the call declined
ParkJob(job) ==
    [job EXCEPT !.status = "out_of_credits", !.error_message = NO_CREDITS_MSG,
                !.completed_at = TRUE]

\* a rollback that leaves the writes of the open transaction in place
RolledBack_Keeps(before, during) == during

\* db.rollback(): the row is as it was before the transaction wrote to it
RolledBack(before, during) == before

\* The outer handler of check_and_deduct (lines 153-156): a statement of
\* the protocol raised; the transaction is rolled back, which releases
\* the row lock if the call held it, and the call returns (True, None).
\* `during` is the billing row as the open transaction has written it.
\* hist.raised[j] flips each time a call on behalf of job j ends this way.
MeteringFailed(p, j, during) ==
    /\ billing' = RolledBack(billing, during)
    /\ UNCHANGED <<credit_transactions, usage_events>>
    /\ block' = IF block = Owner(p, j) THEN <<>> ELSE block
    /\ result' = [result EXCEPT ![p][j] = Result(TRUE, NoBalance)]
    /\ hist' = [hist EXCEPT !.raised[j] = ~@]

\* social_enrichment, lines 511-535: contributor lookup, then the metering
\* call check_and_deduct up to its first commit or rollback, then the
\* out_of_credits write when the call declines.
SE_Bill(p, j) ==
    /\ wpc[p][j] = "se_bill"
    /\ cur[p] = j
    /\ \E found \in BOOLEAN, kept \in BOOLEAN, fault \in {"none", "select", "commit"} :
        IF ~found
        THEN \* "Contributor not found": the routine's failure handler
             /\ jobs' = [jobs EXCEPT ![j] = FailJob(@, ERR)]
             /\ TaskEnds(p, j)
             /\ UNCHANGED <<billingVars, wjob, hist>>
        ELSE IF ~env.has_org
        THEN \* get_user_org_id returned None: no metering
             /\ TaskGoes(p, j, "se_init")
             /\ UNCHANGED <<jobs, billingVars, wjob, hist>>
        ELSE IF fault = "select"
        THEN \* the SELECT ... FOR UPDATE raised (connection, lock timeout)
             /\ MeteringFailed(p, j, billing)
             /\ wjob' = [wjob EXCEPT ![p][j] = Expired]
             /\ TaskGoes(p, j, "se_init")
             /\ UNCHANGED <<jobs, wbal, purchase>>
        ELSE IF ~billing.exists
        THEN \* no billing row: fail open
             /\ result' = [result EXCEPT ![p][j] = Result(TRUE, NoBalance)]
             /\ TaskGoes(p, j, "se_init")
             /\ UNCHANGED <<jobs, billing, block, credit_transactions, usage_events,
                            wbal, purchase, wjob, hist>>
        ELSE /\ LockFree(p, j)       \* SELECT ... FOR UPDATE waits for the row lock
             /\ IF Exempt(billing)
                THEN \* fail open; the row stays locked until the session commits
                     /\ block' = Owner(p, j)
                     /\ result' = [result EXCEPT ![p][j] = Result(TRUE, billing.credit_balance)]
                     /\ TaskGoes(p, j, "se_init")
                     /\ UNCHANGED <<jobs, billing, credit_transactions, usage_events,
                                    wbal, purchase, wjob, hist>>
                ELSE IF ~Sufficient(billing.credit_balance)
                THEN \* rollback, decline; the job is parked in out_of_credits
                     /\ result' = [result EXCEPT ![p][j] = Result(FALSE, billing.credit_balance)]
                     /\ jobs' = [jobs EXCEPT ![j] = ParkJob(@)]
                     /\ wjob' = [wjob EXCEPT ![p][j] = Expired]
                     /\ TaskEnds(p, j)
                     /\ UNCHANGED <<billing, block, credit_transactions, usage_events,
                                    wbal, purchase, hist>>
                ELSE LET new_balance == billing.credit_balance - ENRICHMENT_CREDIT_COST
                     IN  /\ wbal' = [wbal EXCEPT ![p][j] = new_balance]
                         /\ wjob' = [wjob EXCEPT ![p][j] = Expired]
                         /\ UNCHANGED <<jobs, purchase>>
                         /\ IF fault = "commit"
                            THEN \* the UPDATE or the COMMIT raised
                                 /\ MeteringFailed(p, j, Deduct(billing, new_balance))
                                 /\ TaskGoes(p, j, "se_init")
                            ELSE IF env.txn_ok
                            THEN /\ CommitDeduction(p, j, Deduct(billing, new_balance),
                                        Append(credit_transactions, TxnRow(j, new_balance)),
                                        new_balance, kept)
                                 /\ TaskGoes(p, j, "se_init")
                            ELSE \* the credit_transactions INSERT failed: rollback,
                                 \* which undoes the UPDATE and releases the row lock
                                 /\ TaskGoes(p, j, "se_bill_retry")
                                 /\ UNCHANGED <<billing, block, credit_transactions,
                                                usage_events, result, hist>>
    /\ UNCHANGED <<steps, rowlock, ppc, orphaned, pending_jobs, wcount, env, repository, services>>

\* check_and_deduct, lines 112-152: after the rollback the UPDATE is issued
\* again with the new_balance computed before the rollback.
SE_BillRetry(p, j) ==
    /\ wpc[p][j] = "se_bill_retry"
    /\ cur[p] = j
    /\ LockFree(p, j)
    /\ \E kept \in BOOLEAN, fault \in BOOLEAN :
          IF fault
          THEN MeteringFailed(p, j, Deduct(billing, wbal[p][j]))
          ELSE CommitDeduction(p, j, Deduct(billing, wbal[p][j]), credit_transactions,
                               wbal[p][j], kept)
    /\ TaskGoes(p, j, "se_init")
    /\ UNCHANGED <<jobs, steps, rowlock, ppc, orphaned, pending_jobs, wjob, wcount,
                   wbal, purchase, env, repository, services>>

\* purchase_credits, the ORM read of the billing row (no lock is taken).
PurchaseRead(u) ==
    /\ purchase[u].pc = "idle"
    /\ purchase' = [purchase EXCEPT ![u] =
                      [pc |-> "read", exists |-> billing.exists,
                       credit_balance |-> IF billing.exists THEN billing.credit_balance ELSE 0,
                       total_credits_purchased |->
                           IF billing.exists THEN billing.total_credits_purchased ELSE 0]]
    /\ UNCHANGED <<jobs, steps, rowlock, schedVars, cur, wpc, wjob, wcount,
                   billing, block, credit_transactions, usage_events, wbal, result,
                   env, repository, services, hist>>

\* purchase_credits, the flush and commit: the balance computed from the
\* row as it was read is written back, with the purchase transaction row.
\* A request that had to insert the row fails on the unique org_id when
\* another request has inserted it meanwhile.
PurchaseCommit(u) ==
    /\ purchase[u].pc = "read"
    /\ block = <<>>
    /\ LET new_balance == purchase[u].credit_balance + MIN_PURCHASE
           conflict == ~purchase[u].exists /\ billing.exists
       IN  IF conflict
           THEN UNCHANGED <<billing, credit_transactions, hist>>
           ELSE /\ billing' =
                     [(IF purchase[u].exists THEN billing
                       ELSE BillingRow(TRUE, 0, FALSE, FALSE)) EXCEPT
                        !.credit_balance = new_balance,
                        !.total_credits_purchased =
                            purchase[u].total_credits_purchased + MIN_PURCHASE]
                /\ credit_transactions' = Append(credit_transactions,
                     [type |-> "purchase", amount |-> MIN_PURCHASE,
                      balance_after |-> new_balance, job_id |-> NoJob,
                      contributor_id |-> NoJob])
                /\ hist' = [hist EXCEPT !.purchased = @ + MIN_PURCHASE]
    /\ purchase' = [purchase EXCEPT ![u].pc = "done"]
    /\ UNCHANGED <<jobs, steps, rowlock, schedVars, cur, wpc, wjob, wcount,
                   block, usage_events, wbal, result, env, repository, services>>

\* ------------------------------------------------------- social_enrichment
\* lines 537-544: "Initialize job" and its commit, which also ends the
\* transaction check_and_deduct left open on a fail-open return.
SE_Init(p, j) ==
    /\ wpc[p][j] = "se_init"
    /\ cur[p] = j
    /\ jobs' = [jobs EXCEPT ![j] = InitializeJob(@, Seen(p, j), 3)]
    /\ wjob' = [wjob EXCEPT ![p][j] = Expired]
    /\ block' = IF block = Owner(p, j) THEN <<>> ELSE block
    /\ TaskGoes(p, j, CheckPc[1])
    /\ UNCHANGED <<steps, rowlock, ppc, orphaned, pending_jobs, wcount,
                   billing, credit_transactions, usage_events, wbal, result, purchase,
                   env, repository, services, hist>>

\* steps 1 and 2 start with a check and then await the search / the
\* classification adapter.
SE_Check(p, j, k) ==
    /\ jobs[j].job_type = "social_enrichment"
    /\ k \in {1, 2}
    /\ CheckThenCall(p, j, k)

\* a search step whose failure is handled like that of step 2
SE_Return1_Aborts(p, j) ==
    /\ jobs[j].job_type = "social_enrichment"
    /\ wpc[p][j] = CallPc[1]
    /\ cur[p] = NoJob
    /\ \E ok \in BOOLEAN : ReturnOrFail(p, j, 1, 3, ok)
    /\ UNCHANGED <<rowlock, ppc, orphaned, pending_jobs, wcount, billingVars, env, repository, services, hist>>

\* step 1 returns: a failed search is recorded on the step and the routine
\* goes on with empty results.
SE_Return1(p, j) ==
    /\ jobs[j].job_type = "social_enrichment"
    /\ wpc[p][j] = CallPc[1]
    /\ cur[p] = NoJob
    /\ \E ok \in BOOLEAN :
          steps' = [steps EXCEPT ![j] =
                      IF ok THEN update_progress_step(@, Owner(p, j), 1, "completed", "done")
                      ELSE update_progress_step(@, Owner(p, j), 1, "failed", ERR)]
    /\ jobs' = [jobs EXCEPT ![j] = update_job_progress(@, 1, 3)]
    /\ wjob' = [wjob EXCEPT ![p][j] = Expired]
    /\ TaskGoes(p, j, CheckPc[2])
    /\ UNCHANGED <<rowlock, ppc, orphaned, pending_jobs, wcount, billingVars, env, repository, services, hist>>

\* step 2 returns: classification, social context and lead scores are
\* committed, or the exception fails the step and the job.
SE_Return2(p, j) ==
    /\ jobs[j].job_type = "social_enrichment"
    /\ wpc[p][j] = CallPc[2]
    /\ cur[p] = NoJob
    /\ \E ok \in BOOLEAN : ReturnOrFail(p, j, 2, 3, ok)
    /\ UNCHANGED <<rowlock, ppc, orphaned, pending_jobs, wcount, billingVars, env, repository, services, hist>>

\* step 3 up to the point where the routine is about to write 'completed'.
SE_Check3(p, j) ==
    /\ jobs[j].job_type = "social_enrichment"
    /\ wpc[p][j] = CheckPc[3]
    /\ cur[p] = j
    /\ IF ~ensure_job_active(j)
       THEN Cancelled(p, j)
       ELSE /\ steps' = [steps EXCEPT ![j] = OpenStep(@, p, j, 3)]
            /\ TaskGoes(p, j, "se_fin")
            /\ UNCHANGED <<jobs, hist>>
    /\ UNCHANGED <<rowlock, ppc, orphaned, pending_jobs, wjob, wcount, billingVars, env, repository, services>>

\* lines 651-656: the job is written completed and committed, then step 3.
SE_Finalize(p, j) ==
    /\ wpc[p][j] = "se_fin"
    /\ cur[p] = j
    /\ jobs' = [jobs EXCEPT ![j] = CompleteJob(@)]
    /\ steps' = [steps EXCEPT ![j] =
                   update_progress_step(@, Owner(p, j), 3, "completed", "done")]
    /\ wjob' = [wjob EXCEPT ![p][j] = Expired]
    /\ TaskEnds(p, j)
    /\ UNCHANGED <<rowlock, ppc, orphaned, pending_jobs, wcount, billingVars, env, repository, services, hist>>

\* ----------------------------------------------------- repository_sourcing
\* lines 236-251: repository lookup and "Initialize job".
RS_Init(p, j) ==
    /\ wpc[p][j] = "rs_init"
    /\ cur[p] = j
    /\ \E found \in BOOLEAN :
        IF found
        THEN /\ jobs' = [jobs EXCEPT ![j] = InitializeJob(@, Seen(p, j), 4)]
             /\ TaskGoes(p, j, CheckPc[1])
        ELSE /\ jobs' = [jobs EXCEPT ![j] = FailJob(@, ERR)]
             /\ TaskEnds(p, j)
    /\ wjob' = [wjob EXCEPT ![p][j] = Expired]
    /\ UNCHANGED <<steps, rowlock, ppc, orphaned, pending_jobs, wcount, billingVars,
                   env, repository, services, hist>>

\* steps 1 and 2 start with a check and then await the repository fetcher.
RS_Check(p, j, k) ==
    /\ jobs[j].job_type = "repository_sourcing"
    /\ k \in {1, 2}
    /\ CheckThenCall(p, j, k)

\* get_repository returns, the repository row takes the fetched values and
\* is committed (lines 259-273), or the call raises.
RS_Return1(p, j) ==
    /\ jobs[j].job_type = "repository_sourcing"
    /\ wpc[p][j] = CallPc[1]
    /\ cur[p] = NoJob
    /\ \E ok \in BOOLEAN :
        /\ ReturnOrFail(p, j, 1, 4, ok)
        /\ repository' = IF ok THEN [repository EXCEPT !.stars = env.stars] ELSE repository
    /\ UNCHANGED <<rowlock, ppc, orphaned, pending_jobs, wcount, billingVars, env, services, hist>>

\* get_contributors (and the bulk statistics) return or raise.
RS_Return2(p, j) ==
    /\ jobs[j].job_type = "repository_sourcing"
    /\ wpc[p][j] = CallPc[2]
    /\ cur[p] = NoJob
    /\ \E ok \in BOOLEAN, n \in 0..MaxContribs :
        /\ ReturnOrFail(p, j, 2, 4, ok)
        /\ wcount' = [wcount EXCEPT ![p][j] = [n |-> IF ok THEN n ELSE 0, done |-> 0]]
    /\ UNCHANGED <<rowlock, ppc, orphaned, pending_jobs, billingVars, env, repository, services, hist>>

\* step 3 is opened; its loop runs without awaiting (bulk statistics are on).
RS_Check3(p, j) ==
    /\ jobs[j].job_type = "repository_sourcing"
    /\ wpc[p][j] = CheckPc[3]
    /\ cur[p] = j
    /\ IF ~ensure_job_active(j)
       THEN Cancelled(p, j)
       ELSE /\ steps' = [steps EXCEPT ![j] = OpenStep(@, p, j, 3)]
            /\ TaskGoes(p, j, "rs_loop")
            /\ UNCHANGED <<jobs, hist>>
    /\ UNCHANGED <<rowlock, ppc, orphaned, pending_jobs, wjob, wcount, billingVars, env, repository, services>>

\* The contributor_stats row of a contributor that every fetch of the
\* repository returns.  The loops write it in the session; it reaches the
\* store with the commit that ends the loop (line 434 / 805) or with the
\* commit of the handler that marks the step failed.
\* repository sourcing, lines 397-418: the row is created without a source
\* (column default 'commit'); an existing row keeps its source.
SourcingStats(rep, done) ==
    IF done > 0
    THEN [rep EXCEPT !.stats_source = IF @ = NoStats THEN "commit" ELSE @]
    ELSE rep

\* a stargazer analysis that tags every row it touches
StargazerStats_TagsAll(rep, done) ==
    IF done > 0 THEN [rep EXCEPT !.stats_source = "stargazer"] ELSE rep

\* stargazer analysis, lines 768-782: a new row is tagged 'stargazer', an
\* existing row only if its source is not 'commit'.
StargazerStats(rep, done) ==
    IF done > 0
    THEN [rep EXCEPT !.stats_source =
             IF @ = NoStats THEN "stargazer"
             ELSE IF @ # "commit" THEN "stargazer" ELSE @]
    ELSE rep

\* The contributor loop of step 3, from one cancellation check to the next
\* (every CHECK_EVERY contributors), or its end.  JobCancelledError is an
\* Exception: the step's own handler marks step 3 failed with the (empty)
\* exception text before the routine's cancellation handler runs.
RS_Loop(p, j) ==
    /\ wpc[p][j] = "rs_loop"
    /\ cur[p] = j
    /\ LET n == wcount[p][j].n
           done == wcount[p][j].done
       IN  IF done = n
           THEN /\ steps' = [steps EXCEPT ![j] =
                               update_progress_step(@, Owner(p, j), 3, "completed", "done")]
                /\ jobs' = [jobs EXCEPT ![j] = update_job_progress(@, 3, 4)]
                /\ wjob' = [wjob EXCEPT ![p][j] = Expired]
                /\ repository' = SourcingStats(repository, done)
                /\ TaskGoes(p, j, CheckPc[4])
                /\ UNCHANGED wcount
           ELSE IF done % CHECK_EVERY = 0 /\ ~ensure_job_active(j)
           THEN /\ steps' = [steps EXCEPT ![j] =
                      mark_job_cancelled(update_progress_step(@, Owner(p, j), 3, "failed", ""))]
                /\ repository' = SourcingStats(repository, done)
                /\ TaskEnds(p, j)
                /\ UNCHANGED <<jobs, wjob, wcount>>
           ELSE \E ok \in BOOLEAN :
                  IF ok
                  THEN /\ wcount' = [wcount EXCEPT ![p][j].done = Min(n, done + CHECK_EVERY)]
                       /\ TaskGoes(p, j, "rs_loop")
                       /\ UNCHANGED <<jobs, steps, wjob, repository>>
                  ELSE /\ steps' = [steps EXCEPT ![j] =
                               update_progress_step(@, Owner(p, j), 3, "failed", ERR)]
                       /\ jobs' = [jobs EXCEPT ![j] = FailJob(@, ERR)]
                       /\ wjob' = [wjob EXCEPT ![p][j] = Expired]
                       /\ repository' = SourcingStats(repository, done)
                       /\ TaskEnds(p, j)
                       /\ UNCHANGED wcount
    /\ UNCHANGED <<rowlock, ppc, orphaned, pending_jobs, billingVars, env, services, hist>>

\* the m oldest free rows of the job table become pending enrichment jobs
Enqueue(js, m) ==
    LET free == SetToSeq({i \in 1..env.rows : js[i].status = "absent"})
    IN  [i \in Jobs |-> IF i \in Range(Take(free, m))
                        THEN NewJob("social_enrichment") ELSE js[i]]

\* Step 4: one social_enrichment job is queued per contributor of the
\* repository that has no social context; a failure here is recorded on the
\* step and swallowed.
RS_Step4(p, j) ==
    /\ jobs[j].job_type = "repository_sourcing"
    /\ wpc[p][j] = CheckPc[4]
    /\ cur[p] = j
    /\ IF ~ensure_job_active(j)
       THEN /\ Cancelled(p, j)
            /\ UNCHANGED wjob
       ELSE /\ \E ok \in BOOLEAN, m \in 0..MaxContribs :
                IF ok
                THEN /\ steps' = [steps EXCEPT ![j] =
                          update_progress_step(OpenStep(@, p, j, 4), Owner(p, j), 4,
                                               "completed", "done")]
                     /\ jobs' = [Enqueue(jobs, m) EXCEPT ![j] = update_job_progress(@, 4, 4)]
                ELSE /\ steps' = [steps EXCEPT ![j] =
                          update_progress_step(OpenStep(@, p, j, 4), Owner(p, j), 4,
                                               "failed", ERR)]
                     /\ jobs' = [jobs EXCEPT ![j] = update_job_progress(@, 4, 4)]
            /\ wjob' = [wjob EXCEPT ![p][j] = Expired]
            /\ TaskGoes(p, j, "rs_fin")
            /\ UNCHANGED hist
    /\ UNCHANGED <<rowlock, ppc, orphaned, pending_jobs, wcount, billingVars, env, repository, services>>

\* lines 484-488: the job is written completed and committed.
RS_Finalize(p, j) ==
    /\ wpc[p][j] = "rs_fin"
    /\ cur[p] = j
    /\ jobs' = [jobs EXCEPT ![j] = CompleteJob(@)]
    /\ wjob' = [wjob EXCEPT ![p][j] = Expired]
    /\ TaskGoes(p, j, "rs_export")
    /\ UNCHANGED <<steps, rowlock, ppc, orphaned, pending_jobs, wcount, billingVars,
                   env, repository, services, hist>>

\* _check_auto_export: its first statement imports ClayPushLog from models,
\* which src/jobs/models.py does not define; the ImportError is raised
\* before the function's own try block and reaches the failure handler of
\* the calling routine (lines 498-503, 867-872).  No project setting is read
\* and no job is queued, whatever env.export says.
_check_auto_export(p, j) ==
    /\ jobs' = [jobs EXCEPT ![j] = FailJob(@, ERR)]
    /\ wjob' = [wjob EXCEPT ![p][j] = Expired]
    /\ TaskEnds(p, j)
    /\ UNCHANGED hist

\* line 490: the export trigger, under the handler of lines 498-503.
RS_AutoExport(p, j) ==
    /\ wpc[p][j] = "rs_export"
    /\ cur[p] = j
    /\ _check_auto_export(p, j)
    /\ UNCHANGED <<steps, rowlock, ppc, orphaned, pending_jobs, wcount, billingVars, env, repository, services>>

\* ------------------------------------------------------ stargazer_analysis
\* lines 676-689: repository lookup and "Initialize job".
SG_Init(p, j) ==
    /\ wpc[p][j] = "sg_init"
    /\ cur[p] = j
    /\ \E found \in BOOLEAN :
        IF found
        THEN /\ jobs' = [jobs EXCEPT ![j] = InitializeJob(@, Seen(p, j), 3)]
             /\ TaskGoes(p, j, CheckPc[1])
        ELSE /\ jobs' = [jobs EXCEPT ![j] = FailJob(@, ERR)]
             /\ TaskEnds(p, j)
    /\ wjob' = [wjob EXCEPT ![p][j] = Expired]
    /\ UNCHANGED <<steps, rowlock, ppc, orphaned, pending_jobs, wcount, billingVars,
                   env, repository, services, hist>>

\* step 1 starts with a check and then awaits get_stargazers.
SG_Check1(p, j) ==
    /\ jobs[j].job_type = "stargazer_analysis"
    /\ CheckThenCall(p, j, 1)

\* get_stargazers returns or raises.
SG_Return1(p, j) ==
    /\ jobs[j].job_type = "stargazer_analysis"
    /\ wpc[p][j] = CallPc[1]
    /\ cur[p] = NoJob
    /\ \E ok \in BOOLEAN, n \in 0..MaxContribs :
        /\ ReturnOrFail(p, j, 1, 3, ok)
        /\ wcount' = [wcount EXCEPT ![p][j] = [n |-> IF ok THEN n ELSE 0, done |-> 0]]
    /\ UNCHANGED <<rowlock, ppc, orphaned, pending_jobs, billingVars, env, repository, services, hist>>

\* step 2 is opened; its loop runs without awaiting.
SG_Check2(p, j) ==
    /\ jobs[j].job_type = "stargazer_analysis"
    /\ wpc[p][j] = CheckPc[2]
    /\ cur[p] = j
    /\ IF ~ensure_job_active(j)
       THEN Cancelled(p, j)
       ELSE /\ steps' = [steps EXCEPT ![j] = OpenStep(@, p, j, 2)]
            /\ TaskGoes(p, j, "sg_loop")
            /\ UNCHANGED <<jobs, hist>>
    /\ UNCHANGED <<rowlock, ppc, orphaned, pending_jobs, wjob, wcount, billingVars, env, repository, services>>

\* The stargazer loop of step 2, from one cancellation check to the next
\* (line 721, every 10 stargazers as in line 322), or its end.  As in
\* repository sourcing the step's handler sees JobCancelledError first.
SG_Loop(p, j) ==
    /\ wpc[p][j] = "sg_loop"
    /\ cur[p] = j
    /\ LET n == wcount[p][j].n
           done == wcount[p][j].done
       IN  IF done = n
           THEN /\ steps' = [steps EXCEPT ![j] =
                               update_progress_step(@, Owner(p, j), 2, "completed", "done")]
                /\ jobs' = [jobs EXCEPT ![j] = update_job_progress(@, 2, 3)]
                /\ wjob' = [wjob EXCEPT ![p][j] = Expired]
                /\ repository' = StargazerStats(repository, done)
                /\ TaskGoes(p, j, CheckPc[3])
                /\ UNCHANGED wcount
           ELSE IF done % CHECK_EVERY = 0 /\ ~ensure_job_active(j)
           THEN /\ steps' = [steps EXCEPT ![j] =
                      mark_job_cancelled(update_progress_step(@, Owner(p, j), 2, "failed", ""))]
                /\ repository' = StargazerStats(repository, done)
                /\ TaskEnds(p, j)
                /\ UNCHANGED <<jobs, wjob, wcount>>
           ELSE \E ok \in BOOLEAN :
                  IF ok
                  THEN /\ wcount' = [wcount EXCEPT ![p][j].done = Min(n, done + CHECK_EVERY)]
                       /\ TaskGoes(p, j, "sg_loop")
                       /\ UNCHANGED <<jobs, steps, wjob, repository>>
                  ELSE /\ steps' = [steps EXCEPT ![j] =
                               update_progress_step(@, Owner(p, j), 2, "failed", ERR)]
                       /\ jobs' = [jobs EXCEPT ![j] = FailJob(@, ERR)]
                       /\ wjob' = [wjob EXCEPT ![p][j] = Expired]
                       /\ repository' = StargazerStats(repository, done)
                       /\ TaskEnds(p, j)
                       /\ UNCHANGED wcount
    /\ UNCHANGED <<rowlock, ppc, orphaned, pending_jobs, billingVars, env, services, hist>>

\* Step 3: enrichment jobs are queued for the stargazers; a failure here is
\* recorded on the step, logged and swallowed (lines 848-850).
SG_Step3(p, j) ==
    /\ jobs[j].job_type = "stargazer_analysis"
    /\ wpc[p][j] = CheckPc[3]
    /\ cur[p] = j
    /\ IF ~ensure_job_active(j)
       THEN /\ Cancelled(p, j)
            /\ UNCHANGED wjob
       ELSE /\ \E ok \in BOOLEAN, m \in 0..MaxContribs :
                IF ok
                THEN /\ steps' = [steps EXCEPT ![j] =
                          update_progress_step(OpenStep(@, p, j, 3), Owner(p, j), 3,
                                               "completed", "done")]
                     /\ jobs' = [Enqueue(jobs, m) EXCEPT ![j] = update_job_progress(@, 3, 3)]
                ELSE /\ steps' = [steps EXCEPT ![j] =
                          update_progress_step(OpenStep(@, p, j, 3), Owner(p, j), 3,
                                               "failed", ERR)]
                     /\ jobs' = [jobs EXCEPT ![j] = update_job_progress(@, 3, 3)]
            /\ wjob' = [wjob EXCEPT ![p][j] = Expired]
            /\ TaskGoes(p, j, "sg_fin")
            /\ UNCHANGED hist
    /\ UNCHANGED <<rowlock, ppc, orphaned, pending_jobs, wcount, billingVars, env, repository, services>>

\* lines 854-857: the job is written completed and committed.
SG_Finalize(p, j) ==
    /\ wpc[p][j] = "sg_fin"
    /\ cur[p] = j
    /\ jobs' = [jobs EXCEPT ![j] = CompleteJob(@)]
    /\ wjob' = [wjob EXCEPT ![p][j] = Expired]
    /\ TaskGoes(p, j, "sg_export")
    /\ UNCHANGED <<steps, rowlock, ppc, orphaned, pending_jobs, wcount, billingVars,
                   env, repository, services, hist>>

\* line 862: the export trigger, under the handler of lines 867-872.
SG_AutoExport(p, j) ==
    /\ wpc[p][j] = "sg_export"
    /\ cur[p] = j
    /\ _check_auto_export(p, j)
    /\ UNCHANGED <<steps, rowlock, ppc, orphaned, pending_jobs, wcount, billingVars, env, repository, services>>

\* ---------------------------------------------------------------- clay_push
\* process_clay_push: its second statement (line 972) imports ClayPushLog
\* from models and raises ImportError before the routine's try block, so
\* the exception reaches the handler of process_job (lines 1155-1163),
\* which fails the job when the stored row is still 'running'.
process_clay_push(p, j) ==
    /\ wpc[p][j] = "cp_import"
    /\ cur[p] = j
    /\ jobs' = [jobs EXCEPT ![j] = IF @.status = "running" THEN FailJob(@, ERR) ELSE @]
    /\ wjob' = [wjob EXCEPT ![p][j] = Expired]
    /\ TaskEnds(p, j)
    /\ UNCHANGED <<steps, rowlock, ppc, orphaned, pending_jobs, wcount, billingVars,
                   env, repository, services, hist>>

\* ------------------------------------------------------------ next states
Task(p, j) ==
    \/ ProcessJobStart(p, j)
    \/ SE_Bill(p, j)
    \/ SE_BillRetry(p, j)
    \/ SE_Init(p, j)
    \/ \E k \in {1, 2} : SE_Check(p, j, k)
    \/ SE_Return1(p, j)
    \/ SE_Return2(p, j)
    \/ SE_Check3(p, j)
    \/ SE_Finalize(p, j)
    \/ RS_Init(p, j)
    \/ \E k \in {1, 2} : RS_Check(p, j, k)
    \/ RS_Return1(p, j)
    \/ RS_Return2(p, j)
    \/ RS_Check3(p, j)
    \/ RS_Loop(p, j)
    \/ RS_Step4(p, j)
    \/ RS_Finalize(p, j)
    \/ RS_AutoExport(p, j)

\* process_job with the four branches of its dispatch (lines 1144-1151)
TaskAll(p, j) ==
    \/ Task(p, j)
    \/ SG_Init(p, j)
    \/ SG_Check1(p, j)
    \/ SG_Return1(p, j)
    \/ SG_Check2(p, j)
    \/ SG_Loop(p, j)
    \/ SG_Step3(p, j)
    \/ SG_Finalize(p, j)
    \/ SG_AutoExport(p, j)
    \/ process_clay_push(p, j)

\* run(): recovery once, then the claim / dispatch loop
Run(p) ==
    \/ Start(p)
    \/ RecoverSelect(p)
    \/ RecoverCommit(p)
    \/ ClaimSelect(p)
    \/ ClaimCommit(p)
    \/ GatherDone(p)

Scheduler(p) ==
    \/ Run(p)
    \/ Crash(p)

Api ==
    \/ \E j \in Jobs, type \in JobTypes : CreateJob(j, type)
    \/ \E j \in Jobs : cancel_job(j)

\* one scheduler process, the deployment the design describes
Next ==
    \/ Scheduler(1)
    \/ \E j \in Jobs : Task(1, j)
    \/ Api

Spec == Init /\ [][Next]_vars

\* one scheduler process while the organization buys credits
NextCredits ==
    \/ Next
    \/ \E u \in 1..MaxPurchases : PurchaseRead(u)
    \/ \E u \in 1..MaxPurchases : PurchaseCommit(u)

SpecCredits == Init /\ [][NextCredits]_vars

\* one scheduler process, jobs of all four types (stargazer analysis from
\* routers/repositories.py, clay_push from routers/integrations.py)
NextAll ==
    \/ Scheduler(1)
    \/ \E j \in Jobs : TaskAll(1, j)
    \/ \E j \in Jobs, type \in AllJobTypes : CreateJob(j, type)
    \/ \E j \in Jobs : cancel_job(j)

SpecAll == Init /\ [][NextAll]_vars

\* one scheduler process and an API whose sourcing jobs come from the two
\* triggers; jobs may be cancelled, the process may be killed
InitTrigger ==
    InitWith({BillingRow(TRUE, 1, FALSE, FALSE)}, {HealthyEnv(NJobs), DriftEnv(NJobs)})

NextTrigger ==
    \/ Scheduler(1)
    \/ \E j \in Jobs : Task(1, j)
    \/ \E j \in Jobs : trigger_sourcing(j)
    \/ \E j \in Jobs : trigger_project_sourcing(j)
    \/ \E j \in Jobs : cancel_job(j)

SpecTrigger == InitTrigger /\ [][NextTrigger]_vars

\* one scheduler process that is scheduled fairly: run() keeps looping and
\* every task whose await has returned is resumed; rows of any job_type
\* may be in the table
InitLive ==
    InitWith({BillingRow(TRUE, 1, FALSE, FALSE)},
             {HealthyEnv(SingleRows), DriftEnv(SingleRows)})

NextLive ==
    \/ NextAll
    \/ \E j \in Jobs : CreateJob(j, UNKNOWN_JOB_TYPE)

Fairness ==
    /\ WF_vars(Run(1))
    /\ \A j \in Jobs : WF_vars(TaskAll(1, j))

SpecLive == InitLive /\ [][NextLive]_vars /\ Fairness

\* one scheduler process whose batches hold several jobs: the table has
\* NJobs rows, jobs of every type arrive, nothing is cancelled
InitBatch ==
    InitWith({BillingRow(TRUE, 1, FALSE, FALSE)},
             {HealthyEnv(NJobs), DriftEnv(NJobs), ExportEnv(NJobs)})

NextBatch ==
    \/ Scheduler(1)
    \/ \E j \in Jobs : TaskAll(1, j)
    \/ \E j \in Jobs, type \in AllJobTypes : CreateJob(j, type)

SpecBatch == InitBatch /\ [][NextBatch]_vars

\* one scheduler process that is killed and restarted while the store may be
\* unreachable during the recovery of the restart
InitRecovery ==
    InitWith({BillingRow(TRUE, 1, FALSE, FALSE)}, {HealthyEnv(NJobs), DriftEnv(NJobs)})

NextRecovery ==
    \/ Scheduler(1)
    \/ RecoverRaises(1)
    \/ \E j \in Jobs : Task(1, j)
    \/ \E j \in Jobs, type \in JobTypes : CreateJob(j, type)

SpecRecovery == InitRecovery /\ [][NextRecovery]_vars

\* one scheduler process under the default and under a tight concurrency
\* setting, with more pending jobs than the tight setting lets it claim; the
\* process may be killed and restarted, nothing is cancelled
InitBudget ==
    InitWith({BillingRow(TRUE, 1, FALSE, FALSE)},
             {DriftEnv(NJobs), TightEnv(NJobs)})

NextBudget ==
    \/ Scheduler(1)
    \/ \E j \in Jobs : Task(1, j)
    \/ \E j \in Jobs, type \in JobTypes : CreateJob(j, type)

SpecBudget == InitBudget /\ [][NextBudget]_vars

\* one scheduler process and jobs of all four types on a store whose push
\* jobs may name leads that do not exist
InitPush ==
    InitWith({BillingRow(TRUE, 1, FALSE, FALSE)},
             {HealthyEnv(SingleRows), DriftEnv(SingleRows), NoLeadsEnv(SingleRows)})

SpecPush == InitPush /\ [][NextAll]_vars

\* several scheduler processes on one store, started at arbitrary times;
\* no process is killed and no job is cancelled
NextMulti ==
    \/ \E p \in Procs : Run(p)
    \/ \E p \in Procs, j \in Jobs : Task(p, j)
    \/ \E j \in Jobs, type \in JobTypes : CreateJob(j, type)

SpecMulti == Init /\ [][NextMulti]_vars

\* Concurrent claiming: every process has finished its startup recovery on
\* an empty table and is polling; jobs arrive and are cancelled through
\* the API while the processes claim.

NextClaim ==
    \/ \E p \in Procs : ClaimSelect(p)
    \/ \E p \in Procs : ClaimCommit(p)
    \/ Api

InitClaim ==
    /\ jobs = [j \in Jobs |-> AbsentJob]
    /\ steps = [j \in Jobs |-> <<>>]
    /\ rowlock = [j \in Jobs |-> NoProc]
    /\ ppc = [p \in Procs |-> "poll"]
    /\ orphaned = [p \in Procs |-> {}]
    /\ pending_jobs = [p \in Procs |-> <<>>]
    /\ running_jobs = [p \in Procs |-> {}]
    /\ cur = [p \in Procs |-> NoJob]
    /\ wpc = [p \in Procs |-> [j \in Jobs |-> "idle"]]
    /\ wjob = [p \in Procs |-> [j \in Jobs |-> Expired]]
    /\ wcount = [p \in Procs |-> [j \in Jobs |-> [n |-> 0, done |-> 0]]]
    /\ billing = NoBillingRow
    /\ block = <<>>
    /\ credit_transactions = <<>>
    /\ usage_events = <<>>
    /\ env \in {HealthyEnv(NJobs), TightEnv(NJobs)}
    /\ repository = [stars |-> 0, stats_source |-> NoStats]
    /\ services = [p \in Procs |-> NoJob]
    /\ wbal = [p \in Procs |-> [j \in Jobs |-> 0]]
    /\ result = [p \in Procs |-> [j \in Jobs |-> NoResult]]
    /\ purchase = [u \in 1..MaxPurchases |-> NoPurchase]
    /\ hist = Hist0(billing)

SpecClaim == InitClaim /\ [][NextClaim]_vars

\* Concurrent metering: each process has claimed one social_enrichment job
\* of the same organization and its task has reached the metering call.
Caller(p, j) == p = j /\ j \in Jobs

RunningEnrichment ==
    [NewJob("social_enrichment") EXCEPT !.status = "running", !.started_at = TRUE]

InitBilling ==
    /\ jobs = [j \in Jobs |-> IF j \in Procs THEN RunningEnrichment ELSE AbsentJob]
    /\ steps = [j \in Jobs |-> <<>>]
    /\ rowlock = [j \in Jobs |-> NoProc]
    /\ ppc = [p \in Procs |-> IF p \in Jobs THEN "gather" ELSE "poll"]
    /\ orphaned = [p \in Procs |-> {}]
    /\ pending_jobs = [p \in Procs |-> IF p \in Jobs THEN <<p>> ELSE <<>>]
    /\ running_jobs = [p \in Procs |-> IF p \in Jobs THEN {p} ELSE {}]
    /\ cur = [p \in Procs |-> IF p \in Jobs THEN p ELSE NoJob]
    /\ wpc = [p \in Procs |-> [j \in Jobs |-> IF Caller(p, j) THEN "se_bill" ELSE "idle"]]
    /\ wjob = [p \in Procs |-> [j \in Jobs |->
                 IF Caller(p, j) THEN [status |-> "running", started_at |-> TRUE]
                 ELSE Expired]]
    /\ wcount = [p \in Procs |-> [j \in Jobs |-> [n |-> 0, done |-> 0]]]
    /\ billing \in BillingRows
    /\ block = <<>>
    /\ credit_transactions = <<>>
    /\ usage_events = <<>>
    /\ env \in Envs(NJobs)
    /\ repository = [stars |-> 0, stats_source |-> NoStats]
    /\ services = [p \in Procs |-> NoJob]
    /\ wbal = [p \in Procs |-> [j \in Jobs |-> 0]]
    /\ result = [p \in Procs |-> [j \in Jobs |-> NoResult]]
    /\ purchase = [u \in 1..MaxPurchases |-> NoPurchase]
    /\ hist = [Hist0(billing) EXCEPT !.claimers = [j \in Jobs |->
                  IF j \in Procs THEN {j} ELSE {}]]

NextBilling ==
    \/ \E p \in Procs, j \in Jobs : SE_Bill(p, j)
    \/ \E p \in Procs, j \in Jobs : SE_BillRetry(p, j)
    \/ \E p \in Procs, j \in Jobs : SE_Init(p, j)
    \/ \E u \in 1..MaxPurchases : PurchaseRead(u)
    \/ \E u \in 1..MaxPurchases : PurchaseCommit(u)

SpecBilling == InitBilling /\ [][NextBilling]_vars

\* ================================================================ properties
Batch(p) == Range(pending_jobs[p])
Executing(p, j) == wpc[p][j] \notin {"idle", "start", "done"}
OpenSteps(j) == {i \in DOMAIN steps[j] : steps[j][i].status \in {"pending", "running"}}
Count(rows, j, type) ==
    Cardinality({i \in DOMAIN rows : rows[i].job_id = j /\ rows[i].type = type})
UsageCount(rows, j) == Cardinality({i \in DOMAIN rows : rows[i].job_id = j})
Returned(p, j) == ~result[p][j].set /\ result'[p][j].set
LedgersUnchanged == UNCHANGED <<credit_transactions, usage_events>>

\* C1: under concurrent claim_pending_jobs calls of several processes no job
\* is in the claim result of two processes, and every job a process has
\* claimed was moved from pending to running by that process alone.
C1_ClaimedByOneProcess ==
    \A j \in Jobs :
        /\ Cardinality({p \in Procs : j \in Batch(p)}) <= 1
        /\ Cardinality(hist.claimers[j]) <= 1
        /\ \A p \in Procs :
              (j \in Batch(p) /\ ppc[p] = "gather") => hist.claimers[j] = {p}
        /\ jobs[j].status = "running" => Cardinality(hist.claimers[j]) = 1

\* two processes hold non-empty claim results at the same time, one of them
\* still inside its claiming transaction
C1_Witness ==
    \E p, q \in Procs :
        /\ p # q
        /\ ppc[p] = "claim_commit" /\ Batch(p) # {}
        /\ ppc[q] \in {"claim_commit", "gather"} /\ Batch(q) # {}

\* C2: with several scheduler processes on one store, at most one process
\* executes the processing routine of a given job.
C2_OneProcessorPerJob ==
    \A j \in Jobs : Cardinality({p \in Procs : Executing(p, j)}) <= 1

\* C3: a terminal status (completed, failed, cancelled, out_of_credits) is
\* never changed by any later operation.
C3_TerminalAbsorbing ==
    [][\A j \in Jobs : jobs[j].status \in Terminal => jobs'[j].status = jobs[j].status]_vars

\* C4: a job cancelled while its task stands between two steps stays
\* cancelled, its task starts no further adapter call, and once the task
\* has left no step of the job is pending or running.
BetweenSteps == {CheckPc[2], CheckPc[3], CheckPc[4]}

C4_CancelBetweenSteps ==
    \A j \in Jobs :
        hist.cancel_pc[j] \in BetweenSteps =>
            /\ ~hist.late_call[j]
            /\ jobs[j].status = "cancelled"
            /\ (\A p \in Procs : ~Active(p, j)) => OpenSteps(j) = {}

\* a job was cancelled between two steps, its task met the next cancellation
\* check and left (no process died), and the steps recorded before the
\* cancellation are still there
C4_Witness ==
    \E j \in Jobs :
        /\ hist.cancel_pc[j] \in BetweenSteps
        /\ hist.crashes = 0
        /\ \A p \in Procs : ~Active(p, j)
        /\ jobs[j].status = "cancelled"
        /\ \E i \in DOMAIN steps[j] : steps[j][i].status = "completed"

\* C5: recover_orphaned_jobs resets exactly the jobs that were running when
\* it was called (pending, started_at unset, counters 0, no progress steps)
\* and leaves every other job and its steps as they are.
RecoveryReturns(p) == ppc[p] \in {"recover", "recover_commit"} /\ ppc'[p] = "poll"

C5_RecoveryResetsRunningOnly ==
    [][\A p \in Procs : RecoveryReturns(p) =>
          \A j \in Jobs :
             IF ppc[p] = "recover_commit" /\ hist.before[p][j] = "running"
             THEN /\ jobs'[j].status = "pending"
                  /\ ~jobs'[j].started_at
                  /\ jobs'[j].current_step = 0
                  /\ jobs'[j].progress_percentage = 0
                  /\ steps'[j] = <<>>
             ELSE /\ jobs'[j] = jobs[j]
                  /\ steps'[j] = steps[j]]_vars

\* recovery has just put back a job that had been started and had made
\* progress: it is pending again with its total_steps from the earlier run
C5_Witness ==
    \E j \in Jobs :
        /\ hist.crashes > 0
        /\ jobs[j].status = "pending"
        /\ jobs[j].total_steps > 0
        /\ ~jobs[j].started_at
        /\ steps[j] = <<>>

\* C6: of two concurrent check_and_deduct calls against a balance equal to
\* the unit cost, neither of which ended in the outer exception handler,
\* exactly one is allowed and the balance ends at 0.
C6_ExactlyOneDeduction ==
    (/\ Metered(billing)
     /\ hist.balance0 = ENRICHMENT_CREDIT_COST
     /\ hist.purchased = 0
     /\ \A j \in Jobs : ~hist.raised[j]
     /\ result[1][1].set /\ result[2][2].set)
    => /\ result[1][1].allowed # result[2][2].allowed
       /\ billing.credit_balance = 0

\* C7: no balance update is lost: when no call and no purchase is under way
\* the balance is the initial balance plus the purchases minus one unit
\* cost per allowed deduction.
Quiescent ==
    /\ \A p \in Procs, j \in Jobs : wpc[p][j] \notin {"se_bill_retry"}
    /\ \A u \in 1..MaxPurchases : purchase[u].pc # "read"

Deductions ==
    Cardinality({j \in Jobs : \E p \in Procs :
        result[p][j].set /\ result[p][j].allowed /\ result[p][j].balance # NoBalance})

C7_NoLostUpdate ==
    (Metered(billing) /\ Quiescent) =>
        billing.credit_balance =
            hist.balance0 + hist.purchased - ENRICHMENT_CREDIT_COST * Deductions

C9_DeclineChangesNothing ==
    [][\A p \in Procs, j \in Jobs :
         (/\ wpc[p][j] = "se_bill"
          /\ Returned(p, j)
          /\ hist'.raised[j] = hist.raised[j]
          /\ Metered(billing)
          /\ billing.credit_balance < ENRICHMENT_CREDIT_COST)
         => /\ result'[p][j] = Result(FALSE, billing.credit_balance)
            /\ billing' = billing
            /\ LedgersUnchanged]_vars

\* a call has been declined on an empty balance
C9_Witness ==
    \E p \in Procs, j \in Jobs :
        /\ result[p][j] = Result(FALSE, 0)
        /\ Metered(billing)
        /\ billing.credit_balance = 0

\* C10: on the fail-open paths (no billing row, BYOK or enterprise row) the
\* call returns allowed = true and writes nothing, whatever the balance.
C10_FailOpenChangesNothing ==
    [][\A p \in Procs, j \in Jobs :
         (/\ wpc[p][j] = "se_bill"
          /\ Returned(p, j)
          /\ (~billing.exists \/ billing.is_byok \/ billing.is_enterprise))
         => /\ result'[p][j].allowed
            /\ billing' = billing
            /\ LedgersUnchanged]_vars

\* an enterprise organization without credits has been let through
C10_Witness ==
    \E p \in Procs, j \in Jobs :
        /\ result[p][j] = Result(TRUE, 0)
        /\ billing.exists /\ billing.is_enterprise /\ ~billing.is_byok
        /\ billing.credit_balance = 0
        /\ usage_events = <<>>

\* C11: when a statement of the deduction protocol raises, the call returns
\* allowed = true with no balance, the billing row and both ledgers are as
\* they were, and the social_enrichment job goes on to "Initialize job"
\* with its status untouched (neither failed nor out_of_credits).
C11_ExceptionFailsOpen ==
    [][\A p \in Procs, j \in Jobs :
         (Active(p, j) /\ hist'.raised[j] # hist.raised[j])
         => /\ result'[p][j] = Result(TRUE, NoBalance)
            /\ billing' = billing
            /\ LedgersUnchanged
            /\ wpc'[p][j] = "se_init"
            /\ jobs'[j].status = jobs[j].status
            /\ jobs'[j].status \notin {"failed", "out_of_credits"}]_vars

\* a call on a funded metered organization ended in the outer handler: the
\* balance is still the initial one, nothing was journalled, and the job
\* has passed "Initialize job"
C11_Witness ==
    \E p \in Procs, j \in Jobs :
        /\ hist.raised[j]
        /\ result[p][j] = Result(TRUE, NoBalance)
        /\ Metered(billing) /\ billing.credit_balance = hist.balance0
        /\ billing.credit_balance >= ENRICHMENT_CREDIT_COST
        /\ credit_transactions = <<>> /\ usage_events = <<>>
        /\ wpc[p][j] \notin {"se_bill", "se_bill_retry", "se_init", "idle", "done"}

\* C12: a social_enrichment job whose metering call reads a metered balance
\* below the unit cost is written out_of_credits (not failed) and its task
\* ends; the billing row is unchanged, the job has no progress step and
\* no adapter call was started for it.
C12_DeclinedJobIsParked ==
    [][\A p \in Procs, j \in Jobs :
         (/\ wpc[p][j] = "se_bill"
          /\ Returned(p, j)
          /\ hist'.raised[j] = hist.raised[j]
          /\ Metered(billing)
          /\ billing.credit_balance < ENRICHMENT_CREDIT_COST)
         => /\ jobs'[j].status = "out_of_credits"
            /\ jobs'[j].error_message = NO_CREDITS_MSG
            /\ ~Active(p, j)'
            /\ billing' = billing
            /\ steps'[j] = <<>>
            /\ ~hist'.called[j]]_vars

\* a job of an organization with an empty metered balance was parked by
\* the scheduler's task
C12_Witness ==
    \E j \in Jobs :
        /\ jobs[j].status = "out_of_credits"
        /\ jobs[j].job_type = "social_enrichment"
        /\ result[1][j] = Result(FALSE, 0)
        /\ Metered(billing) /\ billing.credit_balance = 0 /\ hist.balance0 = 0
        /\ steps[j] = <<>>
        /\ wpc[1][j] = "done"

\* C13: a job in out_of_credits is left as it is by every action of the
\* scheduler, its tasks, the job API and credit purchases: its row and its
\* steps do not change, no claim selects it and it enters no recovery set.
C13_ParkedStaysParked ==
    [][\A j \in Jobs :
         jobs[j].status = "out_of_credits"
         => /\ jobs'[j] = jobs[j]
            /\ steps'[j] = steps[j]
            /\ \A p \in Procs : /\ j \in Batch(p)' => j \in Batch(p)
                                /\ j \notin orphaned'[p]]_vars

\* a job is parked, the organization has bought credits since, and the
\* scheduler has been restarted and has polled again
C13_Witness ==
    \E j \in Jobs :
        /\ jobs[j].status = "out_of_credits"
        /\ hist.purchased > 0
        /\ billing.credit_balance >= ENRICHMENT_CREDIT_COST
        /\ hist.crashes > 0
        /\ ppc[1] = "poll"

\* steps of a job that ended failed with an exception text
FailedSteps(rows) ==
    {rows[i].step_number : i \in {n \in DOMAIN rows :
        rows[n].status = "failed" /\ rows[n].error_message = ERR}}

\* an exception other than cancellation is raised in step k of job j
StepRaised(j, k) == k \in FailedSteps(steps'[j]) \ FailedSteps(steps[j])

\* the steps whose handler records the exception and lets the routine go on
BestEffort(type, k) ==
    \/ type = "social_enrichment" /\ k = 1
    \/ type = "repository_sourcing" /\ k = 4
    \/ type = "stargazer_analysis" /\ k = 3

Raises(p, j) ==
    /\ Active(p, j)
    /\ wpc'[p][j] # wpc[p][j]
    /\ hist'.crashes = hist.crashes
    /\ \/ hist'.raised[j] # hist.raised[j]
       \/ \E k \in 1..4 : StepRaised(j, k)
       \/ jobs[j].status # "failed" /\ jobs'[j].status = "failed"
       \/ wpc[p][j] = "cp_import"

\* C15: an exception raised while one job is processed leaves the loop
\* waiting for its batch and leaves every other job of the batch (row,
\* progress steps, task position, membership of running_jobs) as it was;
\* a task that ends is removed from running_jobs, and when the wait for the
\* batch ends (the process not being killed) the loop polls again with no
\* job left in running_jobs.
C15_FailureIsContained ==
    [][\A p \in Procs :
         /\ \A j \in Jobs :
               Raises(p, j)
               => /\ ppc[p] = "gather"
                  /\ ppc'[p] = "gather"
                  /\ pending_jobs'[p] = pending_jobs[p]
                  /\ ~Active(p, j)' => j \notin running_jobs'[p]
                  /\ \A i \in Batch(p) \ {j} :
                        /\ jobs'[i] = jobs[i]
                        /\ steps'[i] = steps[i]
                        /\ wpc'[p][i] = wpc[p][i]
                        /\ wcount'[p][i] = wcount[p][i]
                        /\ result'[p][i] = result[p][i]
                        /\ (i \in running_jobs'[p]) = (i \in running_jobs[p])
         /\ (ppc[p] = "gather" /\ ppc'[p] # "gather" /\ hist'.crashes = hist.crashes)
            => /\ ppc'[p] = "poll"
               /\ running_jobs'[p] = {}
               /\ \A j \in Batch(p) : wpc[p][j] = "done"]_vars

\* two jobs of one batch: the first failed with an exception, the second
\* ran all its steps and is completed; the loop is about to poll again
C15_Witness ==
    /\ ppc[1] = "gather"
    /\ Batch(1) = {1, 2}
    /\ wpc[1][1] = "done" /\ wpc[1][2] = "done"
    /\ jobs[1].status = "failed" /\ jobs[1].error_message = ERR
    /\ jobs[2].status = "completed"
    /\ Len(steps[2]) = 3
    /\ \A i \in DOMAIN steps[2] : steps[2][i].status = "completed"
    /\ running_jobs[1] = {}

\* clay_push jobs queued by the step from the current state to the next
QueuedPushJobs ==
    {i \in Jobs : /\ jobs[i].status = "absent"
                  /\ jobs'[i].status = "pending"
                  /\ jobs'[i].job_type = "clay_push"}

\* C18: when the export trigger has run for a completed repository_sourcing
\* or stargazer_analysis job, it has queued exactly one pending clay_push
\* job if the project asked for an export (enabled, webhook configured, a
\* non-empty filtered lead set), and none otherwise.
C18_TriggerQueuesOneJob ==
    [][\A p \in Procs, j \in Jobs :
         (/\ wpc[p][j] \in {"rs_export", "sg_export"}
          /\ wpc'[p][j] = "done"
          /\ hist'.crashes = hist.crashes
          /\ \E i \in 1..env.rows : jobs[i].status = "absent")
         => Cardinality(QueuedPushJobs) = IF env.export THEN 1 ELSE 0]_vars

\* C19: a clay_push job whose task has run to its end, with no cancellation
\* and no kill, is completed, and its step 2 (the sends and the sleeps
\* between them) is completed.
C19_PushJobCompletes ==
    \A p \in Procs, j \in Jobs :
        (/\ jobs[j].job_type = "clay_push"
         /\ wpc[p][j] = "done"
         /\ hist.crashes = 0
         /\ hist.cancel_pc[j] = "none")
        => /\ jobs[j].status = "completed"
           /\ \E i \in DOMAIN steps[j] :
                 steps[j][i].step_number = 2 /\ steps[j][i].status = "completed"

\* the task of job j on process p stands at an ensure_job_active call (a
\* step boundary, or the periodic check of a contributor / stargazer loop
\* that still has entries to process), finds the job cancelled and leaves
DetectsCancel(p, j) ==
    /\ cur[p] = j
    /\ \/ wpc[p][j] \in Range(CheckPc)
       \/ /\ wpc[p][j] \in {"rs_loop", "sg_loop"}
          /\ wcount[p][j].done # wcount[p][j].n
          /\ wcount[p][j].done % CHECK_EVERY = 0
    /\ ~ensure_job_active(j)
    /\ wpc'[p][j] = "done"

\* C26: when a task aborts because it saw its job cancelled, at a step
\* boundary or at a periodic check inside an inner loop, every step of the
\* job that was pending or running at that moment ends failed with message
\* and error_message "Cancelled by user".
C26_AbortFailsOpenSteps ==
    [][\A p \in Procs : \A j \in Jobs :
          DetectsCancel(p, j) =>
             \A i \in OpenSteps(j) :
                /\ steps'[j][i].status = "failed"
                /\ steps'[j][i].message = CANCELLED_MSG
                /\ steps'[j][i].error_message = CANCELLED_MSG]_vars

\* recover_orphaned_jobs of some process commits the reset of job j
RecoveryResets(j) ==
    \E p \in Procs :
        /\ ppc[p] = "recover_commit"
        /\ ppc'[p] = "poll"
        /\ j \in orphaned[p]

\* C27: the stored progress_percentage of a job never decreases while the
\* job is being run; the only write that lowers it is the reset to 0 of
\* orphan recovery.
C27_ProgressMonotone ==
    [][\A j \in Jobs :
          jobs'[j].progress_percentage < jobs[j].progress_percentage =>
             /\ RecoveryResets(j)
             /\ jobs'[j].progress_percentage = 0]_vars

\* C28: every completed job, whatever its type, has progress_percentage 100
\* and completed_at set.
C28_CompletedIsFull ==
    \A j \in Jobs :
        jobs[j].status = "completed" =>
            /\ jobs[j].progress_percentage = 10000
            /\ jobs[j].completed_at

\* the status changes a progress step may make: create_progress_step inserts
\* it as pending, update_progress_step moves it to running and then to
\* completed or failed (a running step may be written running again with a
\* new message)
StepMoves ==
    {<<"pending", "running">>, <<"running", "running">>,
     <<"running", "completed">>, <<"running", "failed">>,
     <<"pending", "failed">>}

\* the rows of a job in creation order carry the step numbers 1, 2, .., k
InStepOrder(rows) == \A i \in DOMAIN rows : rows[i].step_number = i

\* C29: progress steps follow their state machine for every job type: steps
\* are created one at a time (by create_progress_step, as pending) before
\* they are moved, the step numbers of a job are exactly 1..k in creation
\* order without gap or duplicate, a step moves only pending -> running ->
\* completed or failed, and a completed or failed step never changes status
\* again.
C29_StepStateMachine ==
    [][\A j \in Jobs :
          /\ InStepOrder(steps'[j])
          /\ Len(steps'[j]) >= Len(steps[j]) =>
                /\ Len(steps'[j]) <= Len(steps[j]) + 1
                /\ \A i \in DOMAIN steps[j] :
                      \/ steps'[j][i].status = steps[j][i].status
                      \/ <<steps[j][i].status, steps'[j][i].status>> \in StepMoves]_vars

\* the message argument of the update_progress_step(.., 'failed', ..) call
\* of a step handler: str(e) of the exception it caught, which is empty for
\* the JobCancelledError() raised by a periodic check inside the step
PassedMessage(p, j) ==
    IF wpc[p][j] \in {"rs_loop", "sg_loop"} /\ DetectsCancel(p, j) THEN "" ELSE ERR

\* update_progress_step sets step i of job j to failed on behalf of the task
\* of process p (mark_job_cancelled is the other writer of 'failed': it
\* acts alone when a step boundary detects the cancellation)
StepSetFailed(p, j, i) ==
    /\ i \in DOMAIN steps[j]
    /\ i \in DOMAIN steps'[j]
    /\ steps[j][i].owner = Owner(p, j)
    /\ steps[j][i].status = "running"
    /\ steps'[j][i].status = "failed"
    /\ ~(DetectsCancel(p, j) /\ wpc[p][j] \in Range(CheckPc))

EntersLoop(p) == ppc[p] \in {"recover", "recover_commit"} /\ ppc'[p] = "poll"

\* C25: in every execution of run() orphan recovery has been carried out
\* before the first claim, also when the recovery attempt raises: when the
\* polling loop begins no job left running by a previous process is still
\* running.
C25_RecoveredBeforeFirstClaim ==
    [][\A p \in Procs : EntersLoop(p) =>
          \A j \in Jobs : jobs'[j].status # "running"]_vars

\* C25 as the code has it: recovery is attempted before the first claim; if
\* it returns, every job that was running is pending when the loop begins,
\* and if it raises, the error is logged and the loop begins with every job
\* and step as the previous process left it.
C25_RecoveryAttemptedFirst ==
    [][\A p \in Procs : EntersLoop(p) =>
          IF hist'.recovery_error[p]
          THEN /\ jobs' = jobs
               /\ steps' = steps
          ELSE \A j \in Jobs :
                  /\ jobs'[j].status # "running"
                  /\ jobs[j].status = "running" => jobs'[j].status = "pending"]_vars

\* the recovery of a restarted process raised, and the process makes its
\* first claim while a job of the killed process is still running
C25_Witness ==
    \E p \in Procs :
        /\ hist.recovery_error[p]
        /\ hist.crashes > 0
        /\ ppc[p] = "claim_commit"
        /\ \E j \in Jobs : jobs[j].status = "running" /\ j \notin Batch(p)

\* claim_pending_jobs of process p returns a non-empty list
Claims(p) == ppc[p] = "poll" /\ ppc'[p] = "claim_commit"

\* the budget of a claim_pending_jobs call of process p (line 48)
Budget(p) == Max(0, env.max_concurrent_jobs - Cardinality(running_jobs[p]))

\* the jobs process p has claimed or is processing
InHand(p) == Batch(p) \cup running_jobs[p] \cup {j \in Jobs : wpc[p][j] # "idle"}

\* C23: a claim_pending_jobs call claims at most max(0, MAX_CONCURRENT_JOBS -
\* |running_jobs|) jobs and claims nothing when that budget is 0 or no
\* pending job exists; a scheduler process never processes more than
\* MAX_CONCURRENT_JOBS jobs at once.
C23_ClaimWithinBudget ==
    [][\A p \in Procs :
          /\ Claims(p) =>
                /\ Len(pending_jobs'[p]) <= Budget(p)
                /\ Budget(p) > 0
                /\ \A j \in Range(pending_jobs'[p]) : jobs[j].status = "pending"
          /\ Cardinality(Range(pending_jobs'[p])) = Len(pending_jobs'[p])
          /\ Cardinality(InHand(p)') <= env.max_concurrent_jobs]_vars

\* the budget binds: the process works on as many jobs as the setting
\* allows while another pending job waits unclaimed
C23_Witness ==
    \E p \in Procs :
        /\ ppc[p] = "gather"
        /\ Cardinality(Batch(p)) = env.max_concurrent_jobs
        /\ \E j \in Batch(p) : Executing(p, j)
        /\ \E j \in Jobs \ Batch(p) : jobs[j].status = "pending"

\* C24: claiming is FIFO by creation time: when a call claims a set of jobs,
\* every pending job that no other process has locked and that was created
\* before some claimed job is claimed too.
C24_ClaimIsFifo ==
    [][\A p \in Procs :
          Claims(p) =>
             \A j \in Range(pending_jobs'[p]) : \A i \in Jobs :
                (i < j /\ jobs[i].status = "pending" /\ rowlock[i] = NoProc)
                   => i \in Range(pending_jobs'[p])]_vars

\* a process has claimed the oldest pending job and left a newer pending job
\* for a later call
C24_Witness ==
    \E p \in Procs : \E i, j \in Jobs :
        /\ i < j
        /\ ppc[p] = "claim_commit"
        /\ Batch(p) = {i}
        /\ jobs[j].status = "pending"
        /\ rowlock[j] = NoProc

\* the task of process p writes step k of job j completed
StepCompletes(p, j, k) ==
    \E i \in DOMAIN steps[j] :
        /\ i \in DOMAIN steps'[j]
        /\ steps[j][i].owner = Owner(p, j)
        /\ steps[j][i].step_number = k
        /\ steps[j][i].status = "running"
        /\ steps'[j][i].status = "completed"

\* C22: when step 1 of a claimed repository_sourcing job completes after a
\* metadata fetch that returned stars = 10, the repository row's stars is
\* 10, the job's total_steps is 4 and its progress_percentage 25, and the
\* job goes on to step 2 of 4.
C22_StepOneOfSourcing ==
    [][\A p \in Procs : \A j \in Jobs :
          (jobs[j].job_type = "repository_sourcing" /\ StepCompletes(p, j, 1)) =>
             /\ repository'.stars = env.stars
             /\ jobs'[j].current_step = 1
             /\ jobs'[j].total_steps = 4
             /\ jobs'[j].progress_percentage = 2500
             /\ wpc'[p][j] = CheckPc[2]
             /\ cur'[p] = j]_vars

\* a claimed repository_sourcing job has completed step 1 with the fetched
\* star count of 10 stored and stands before step 2
C22_Witness ==
    \E j \in Jobs :
        /\ jobs[j].job_type = "repository_sourcing"
        /\ jobs[j].status = "running"
        /\ wpc[1][j] = CheckPc[2]
        /\ env.stars = MaxStars
        /\ repository.stars = MaxStars
        /\ jobs[j].progress_percentage = 2500
        /\ \E i \in DOMAIN steps[j] :
              steps[j][i].step_number = 1 /\ steps[j][i].status = "completed"

\* C21: a clay_push job whose lead ids name no existing contributor ends
\* failed, never completed, with step 1 failed with the message "No valid
\* leads found" (and without a webhook send or a push-log row, which no
\* action of the routine produces).
C21_NoLeadsFailsStepOne ==
    \A p \in Procs, j \in Jobs :
        (/\ jobs[j].job_type = "clay_push"
         /\ ~env.leads
         /\ wpc[p][j] = "done"
         /\ hist.crashes = 0
         /\ hist.cancel_pc[j] = "none")
        => /\ jobs[j].status = "failed"
           /\ \E i \in DOMAIN steps[j] :
                 /\ steps[j][i].step_number = 1
                 /\ steps[j][i].status = "failed"
                 /\ steps[j][i].message = NO_LEADS_MSG

\* the step numbers of job j whose row is completed
CompletedSteps(j) ==
    {steps[j][i].step_number : i \in {n \in DOMAIN steps[j] : steps[j][n].status = "completed"}}

\* C31: a failing profile search (step 1) of a social_enrichment job does not
\* abort the job: step 1 is failed, the job row keeps its status and the
\* routine goes on to step 2; when steps 2 and 3 then succeed the job ends
\* completed.
C31_SearchFailureGoesOn ==
    [][\A p \in Procs : \A j \in Jobs :
          /\ (jobs[j].job_type = "social_enrichment" /\ wpc[p][j] = CallPc[1] /\ StepRaised(j, 1)) =>
                /\ jobs'[j].status = jobs[j].status
                /\ jobs'[j].error_message = jobs[j].error_message
                /\ jobs'[j].completed_at = jobs[j].completed_at
                /\ wpc'[p][j] = CheckPc[2]
                /\ cur'[p] = j
          /\ (/\ jobs[j].job_type = "social_enrichment"
              /\ wpc'[p][j] = "done"
              /\ 1 \in FailedSteps(steps'[j])
              /\ hist'.crashes = 0
              /\ hist'.cancel_pc[j] = "none"
              /\ 2 \notin FailedSteps(steps'[j])) =>
                /\ jobs'[j].status = "completed"
                /\ CompletedSteps(j)' = {2, 3}]_vars

\* the search of a social_enrichment job failed, steps 2 and 3 ran after it
\* and the job is completed
C31_Witness ==
    \E j \in Jobs :
        /\ jobs[j].job_type = "social_enrichment"
        /\ 1 \in FailedSteps(steps[j])
        /\ CompletedSteps(j) = {2, 3}
        /\ jobs[j].status = "completed"
        /\ jobs[j].progress_percentage = 10000

\* C38: every completed job has current_step equal to total_steps: 4 for
\* repository_sourcing, 3 for social_enrichment and stargazer_analysis, 2 for
\* clay_push.
C38_CompletedAtLastStep ==
    \A j \in Jobs :
        jobs[j].status = "completed" =>
            /\ jobs[j].total_steps = TotalSteps(jobs[j].job_type)
            /\ jobs[j].current_step = jobs[j].total_steps

\* C35: an error raised in the export trigger, at any point of
\* _check_auto_export, leaves the outcome of the triggering job alone: the
\* job that was finalised as completed with progress 100 stays completed
\* and has no error_message.
C35_TriggerErrorIsContained ==
    [][\A p \in Procs : \A j \in Jobs :
          (/\ wpc[p][j] \in {"rs_export", "sg_export"}
           /\ wpc'[p][j] = "done"
           /\ jobs[j].status = "completed") =>
              /\ jobs'[j].status = "completed"
              /\ jobs'[j].progress_percentage = 10000
              /\ jobs'[j].error_message = ""]_vars

\* C36: a social_enrichment job is charged at most once: over claims,
\* process kills, orphan recoveries and re-runs at most one deduction (one
\* committed balance update, one usage event) is recorded for a job id.
C36_ChargedAtMostOnce ==
    \A j \in Jobs :
        /\ hist.committed[j] <= 1
        /\ UsageCount(usage_events, j) <= 1

\* C40: the credit_balance of a metered organization that starts
\* non-negative is non-negative in every reachable state, under every
\* interleaving of concurrent check_and_deduct calls and purchases, the
\* calls that re-issue the UPDATE after a failed ledger INSERT included.
C40_BalanceNeverNegative ==
    (Metered(billing) /\ hist.balance0 >= 0) => billing.credit_balance >= 0

\* two calls of different jobs were both allowed on the fallback path and
\* left the balance at zero
C40_Witness ==
    /\ Metered(billing)
    /\ ~env.txn_ok
    /\ billing.credit_balance = 0
    /\ \E p, q \in Procs, j, k \in Jobs :
          /\ j # k
          /\ result[p][j].set /\ result[p][j].allowed /\ result[p][j].balance # NoBalance
          /\ result[q][k].set /\ result[q][k].allowed /\ result[q][k].balance # NoBalance

\* C34: a job's status becomes cancelled only from pending or running, and
\* then error_message is "Cancelled by user" and completed_at is set; a job
\* cancelled while pending, or while running before its processing routine
\* has started, is never processed: it never has a progress step and no
\* adapter call is made for it.
C34_CancelThenNeverProcessed ==
    /\ [][\A j \in Jobs :
            (jobs[j].status # "cancelled" /\ jobs'[j].status = "cancelled") =>
                /\ jobs[j].status \in {"pending", "running"}
                /\ jobs'[j].error_message = CANCELLED_MSG
                /\ jobs'[j].completed_at]_vars
    /\ [](\A j \in Jobs :
            hist.cancelled_unstarted[j] => steps[j] = <<>> /\ ~hist.called[j])

\* C33: every adapter call started on behalf of a job goes through the
\* adapter instances (and the session they hold) that process_job created
\* for that job, never through instances created for a sibling job.
C33_OwnServices ==
    [][\A p \in Procs, j \in Jobs :
          (wpc[p][j] \notin Range(CallPc) /\ wpc'[p][j] \in Range(CallPc)) =>
              services[p] = j]_vars

\* C37: while the process is not killed, every job that is running
\* eventually reaches completed, failed, cancelled or out_of_credits,
\* whatever its job_type is.
C37_ClaimedJobTerminates ==
    [](hist.crashes = 0) =>
        \A j \in Jobs : (jobs[j].status = "running") ~> (jobs[j].status \in Terminal)

\* C32: over any sequence of repository_sourcing and stargazer_analysis
\* jobs a stats row whose source is 'commit' keeps that source, and a row's
\* source becomes 'stargazer' only in the loop of a stargazer analysis, on
\* a row it creates or a row whose source is not 'commit'.
C32_CommitNeverDowngraded ==
    [][/\ repository.stats_source = "commit" => repository'.stats_source = "commit"
       /\ (repository'.stats_source = "stargazer" /\ repository.stats_source # "stargazer") =>
             /\ repository.stats_source # "commit"
             /\ \E p \in Procs, j \in Jobs :
                   jobs[j].job_type = "stargazer_analysis" /\ wpc[p][j] = "sg_loop"]_vars

\* a stargazer analysis has committed its loop over a contributor whose
\* stats row is tagged 'commit'
C32_Witness ==
    /\ repository.stats_source = "commit"
    /\ \E p \in Procs, j \in Jobs :
          /\ jobs[j].job_type = "stargazer_analysis"
          /\ wpc[p][j] = CheckPc[3]
          /\ wcount[p][j].done > 0

\* C39: at any time at most one repository_sourcing job of the repository
\* is in status pending or running.
C39_OneSourcingJobPerRepository ==
    Cardinality({j \in Jobs : /\ jobs[j].job_type = "repository_sourcing"
                              /\ jobs[j].status \in {"pending", "running"}}) <= 1

====
